---------------------------- MODULE Spec2Model ----------------------------
(***************************************************************************)
(* A model of go-bitfield's decoder (src/bitfield.go, src/option.go,       *)
(* src/error.go): Unmarshal validates the decode target and the field      *)
(* schema, resolves the options, then walks the fields left to right with  *)
(* one (iData, iBitInData) cursor, extracting each field's value with      *)
(* parseValueLittleEndian / parseValueBigEndian and sign-extending it with *)
(* signed().                                                               *)
(*                                                                         *)
(* A uint64 is the set of the positions of its 1 bits (bit 0 the least     *)
(* significant): TLC's integers are 32 bits wide, and the code's shifts    *)
(* and its 0 - msb are 64-bit operations.                                  *)
(***************************************************************************)
EXTENDS Integers, Sequences, FiniteSets, TLC

(***************************************************************************)
(* Program constants.                                                      *)
(***************************************************************************)
\* width of the accumulator: var val uint64
W64 == 64
\* bits in one byte of data: the inner loop bound iBitInData < 8
ByteBits == 8
\* const LittleEndian ByteOrder = iota
LittleEndian == 0
\* const BigEndian
BigEndian == 1

(***************************************************************************)
(* 64-bit unsigned arithmetic.  A uint64 is the set of the positions of    *)
(* its 1 bits, a subset of 0..63; its value is the sum of 2^i over them.   *)
(***************************************************************************)
BitIdx == 0..(W64 - 1)

Pow2(n) == 2^n

\* bit i of a small natural number n
BitOf(n, i) == (n \div Pow2(i)) % 2

Zero64 == {}

\* uint64(1)
One64 == {0}

\* uint64(b) for a byte b
U64OfByte(b) == {i \in 0..(ByteBits - 1) : BitOf(b, i) = 1}

\* v >> n on uint64
Shr64(v, n) == {i - n : i \in {j \in v : j >= n}}

\* a shift computed in 32 bits
Shl32(v, n) == {i + n : i \in {j \in v : j + n < 32}}

\* v << n on uint64: bits shifted past bit 63 are lost, n >= 64 gives 0
Shl64(v, n) == {i + n : i \in {j \in v : j + n < W64}}

Or64(a, b) == a \cup b

And64(a, b) == a \cap b

Bit64(v, i) == IF i \in v THEN 1 ELSE 0

\* the borrow into bit i of a - b: the low i bits of a are less than those
\* of b, that is, some bit j below i is b's alone and no bit between j and
\* i is a's alone
Borrow64(a, b, i) ==
    IF \E j \in b : /\ j < i
                     /\ j \notin a
                     /\ \A k \in a : (k \in b \/ k < j \/ k >= i)
    THEN 1 ELSE 0

\* a - b on uint64 (modulo 2^64)
Sub64(a, b) ==
    {i \in BitIdx : (Bit64(a, i) - Bit64(b, i) - Borrow64(a, b, i)) % 2 = 1}

(***************************************************************************)
(* The field schema.  A field descriptor is what reflect yields for one    *)
(* struct field: whether it is exported, its kind, and its `bit` tag (tag  *)
(* is the tag's value as a sequence of characters when hasTag holds).      *)
(***************************************************************************)
UintKinds == {"uint8", "uint16", "uint32", "uint64"}

IntKinds == {"int8", "int16", "int32", "int64"}

\* the kinds of the model that are not fixed-size integers
OtherKinds == {"int", "uint", "string", "struct"}

\* reflect.Type.Bits() of a fixed-size integer kind
TypeBits(kind) ==
    CASE kind \in {"uint8", "int8"} -> 8
      [] kind \in {"uint16", "int16"} -> 16
      [] kind \in {"uint32", "int32"} -> 32
      [] kind \in {"uint64", "int64"} -> 64

isFixedInteger(kind) == kind \in UintKinds \cup IntKinds

\* reflect.Value.CanUint / CanInt
CanUint(kind) == kind \in UintKinds \cup {"uint"}

CanInt(kind) == kind \in IntKinds \cup {"int"}

DigitChars == <<"0", "1", "2", "3", "4", "5", "6", "7", "8", "9">>

IsDigit(c) == \E d \in 1..Len(DigitChars) : DigitChars[d] = c

DigitVal(c) == (CHOOSE d \in 1..Len(DigitChars) : DigitChars[d] = c) - 1

\* the decimal value of a sequence of digits, most significant first
RECURSIVE DecVal(_)
DecVal(s) ==
    IF Len(s) = 0 THEN 0
    ELSE 10 * DecVal(SubSeq(s, 1, Len(s) - 1)) + DigitVal(s[Len(s)])

\* the digits of s from its first digit that is not 0, or its last digit
RECURSIVE SignificantDigits(_)
SignificantDigits(s) ==
    IF Len(s) > 1 /\ s[1] = "0" THEN SignificantDigits(Tail(s)) ELSE s

\* the digits of the greatest int, 1<<63 - 1 (int has 64 bits)
MaxIntDigits ==
    <<"9", "2", "2", "3", "3", "7", "2", "0", "3", "6", "8", "5", "4", "7", "7", "5", "8", "0", "7">>

\* the digits of 1<<63, the magnitude of the least int
MinIntDigits ==
    <<"9", "2", "2", "3", "3", "7", "2", "0", "3", "6", "8", "5", "4", "7", "7", "5", "8", "0", "8">>

\* of two digit sequences of one length, a spells the greater number
DigitsAbove(a, b) ==
    \E k \in 1..Len(a) :
        /\ DigitVal(a[k]) > DigitVal(b[k])
        /\ \A j \in 1..(k - 1) : a[j] = b[j]

\* the digits of the greatest uint64, 1<<64 - 1
MaxUintDigits ==
    <<"1", "8", "4", "4", "6", "7", "4", "4", "0", "7", "3",
        "7", "0", "9", "5", "5", "1", "6", "1", "5">>

\* of two digit sequences without leading zeros, a spells the greater number
NumberAbove(a, lim) ==
    \/ Len(a) > Len(lim)
    \/ Len(a) = Len(lim) /\ DigitsAbove(a, lim)

\* the loop of strconv.ParseUint(s, 10, 64) from the k-th character on, n
\* the digits of the number so far: a character that is no digit is a
\* syntax error, a digit that takes the number above 1<<64 - 1 a range
\* error, whatever follows it (n1, the number with the digit taken in, is
\* bound as the member of a one-element set so that it is computed once)
RECURSIVE parseUintFrom(_, _, _)
parseUintFrom(s, k, n) ==
    IF k > Len(s) THEN [err |-> "nil", digits |-> n]
    ELSE IF ~IsDigit(s[k]) THEN [err |-> "syntax", digits |-> <<"0">>]
    ELSE CHOOSE r \in
             { IF NumberAbove(n1, MaxUintDigits)
               THEN [err |-> "range", digits |-> MaxUintDigits]
               ELSE parseUintFrom(s, k + 1, n1)
               : n1 \in {SignificantDigits(Append(n, s[k]))} } : TRUE

\* strconv.ParseUint(s, 10, 64)
ParseUint(s) ==
    IF Len(s) = 0 THEN [err |-> "syntax", digits |-> <<"0">>]
    ELSE parseUintFrom(s, 1, <<"0">>)

\* strconv.ParseInt(s, 10, 0), int of 64 bits: the sign is picked off, the
\* rest parsed unsigned; a syntax error gives 0; a number at or above
\* 1<<63, or below -(1<<63), gives the bound with a range error
ParseInt(s) ==
    IF Len(s) = 0 THEN [err |-> "syntax", neg |-> FALSE, digits |-> <<"0">>]
    ELSE
    LET neg == s[1] = "-"
    IN  CHOOSE r \in
            { IF un.err = "syntax"
              THEN [err |-> "syntax", neg |-> FALSE, digits |-> <<"0">>]
              ELSE IF ~neg /\ NumberAbove(un.digits, MaxIntDigits)
              THEN [err |-> "range", neg |-> FALSE, digits |-> MaxIntDigits]
              ELSE IF neg /\ NumberAbove(un.digits, MinIntDigits)
              THEN [err |-> "range", neg |-> TRUE, digits |-> MinIntDigits]
              ELSE [err |-> "nil", neg |-> neg /\ un.digits # <<"0">>,
                    digits |-> un.digits]
              : un \in {ParseUint(IF s[1] \in {"+", "-"} THEN Tail(s)
                                                         ELSE s)} } : TRUE

\* strconv.Atoi: its result is that of ParseInt(s, 10, 0), which the fast
\* path for short strings computes without it.  err is "nil", "syntax" or
\* "range", ok says it is "nil"; neg and digits carry the number returned
\* exactly; val is that number when it has at most nine digits, and 10^9
\* with the sign for the greater ones, which the code compares with 1 and
\* a type size alike
Atoi(s) ==
    CHOOSE a \in
        { [ok |-> r.err = "nil",
           err |-> r.err,
           val |-> IF Len(r.digits) > 9 THEN IF r.neg THEN 0 - 10^9 ELSE 10^9
                   ELSE IF r.neg THEN 0 - DecVal(r.digits)
                   ELSE DecVal(r.digits),
           neg |-> r.neg,
           digits |-> r.digits] : r \in {ParseInt(s)} } : TRUE

\* validateField with the lower bound of the range off by one
validateFieldFromZero(field) ==
    IF ~field.hasTag THEN ""
    ELSE IF ~Atoi(field.tag).ok THEN "bit size must be integer"
    ELSE IF ~isFixedInteger(field.kind)
         THEN "bit field must be fixed-size integer type"
    ELSE IF ~(0 <= Atoi(field.tag).val
              /\ Atoi(field.tag).val <= TypeBits(field.kind))
         THEN "bit size must be within range 1 to its type size"
    ELSE ""

\* validateField that looks at the kind before it parses the annotation
validateFieldKindFirst(field) ==
    IF ~field.hasTag THEN ""
    ELSE IF ~isFixedInteger(field.kind)
         THEN "bit field must be fixed-size integer type"
    ELSE IF ~Atoi(field.tag).ok THEN "bit size must be integer"
    ELSE IF ~(1 <= Atoi(field.tag).val
              /\ Atoi(field.tag).val <= TypeBits(field.kind))
         THEN "bit size must be within range 1 to its type size"
    ELSE ""

\* the problem validateField reports for a field, "" when it reports none
validateField(field) ==
    IF ~field.hasTag THEN ""
    ELSE IF ~Atoi(field.tag).ok THEN "bit size must be integer"
    ELSE IF ~isFixedInteger(field.kind)
         THEN "bit field must be fixed-size integer type"
    ELSE IF ~(1 <= Atoi(field.tag).val
              /\ Atoi(field.tag).val <= TypeBits(field.kind))
         THEN "bit size must be within range 1 to its type size"
    ELSE ""

\* validateStruct: the first field with a problem, 0 when there is none
RECURSIVE validateStructFrom(_, _)
validateStructFrom(fs, i) ==
    IF i > Len(fs) THEN 0
    ELSE IF validateField(fs[i]) # "" THEN i
    ELSE validateStructFrom(fs, i + 1)

validateStruct(fs) == validateStructFrom(fs, 1)

\* ensureNonNilPointerToStruct without the rv.IsNil() check
ensureWithoutNilCheck(tgt) ==
    IF tgt = "nil" THEN " (nil passed)"
    ELSE IF tgt = "nonptr" THEN " (int passed)"
    ELSE IF tgt = "structval" THEN " (struct passed)"
    ELSE IF tgt = "ptr_nonstruct" THEN " (*int passed)"
    ELSE ""

\* ensureNonNilPointerToStruct: the decode target is one of
\* nil, a non-pointer (an int, or a struct passed by value), a nil pointer,
\* a pointer to a non-struct, a pointer to a struct; the result is the
\* problem's suffix, "" when there is none
ensureNonNilPointerToStruct(tgt) ==
    IF tgt = "nil" THEN " (nil passed)"
    ELSE IF tgt = "nonptr" THEN " (int passed)"
    ELSE IF tgt = "structval" THEN " (struct passed)"
    ELSE IF tgt = "nilptr" THEN " (nil *struct passed)"
    ELSE IF tgt = "ptr_nonstruct" THEN " (*int passed)"
    ELSE ""

\* validateUnmarshalType that validates the fields of the target's struct
\* type before it looks at the target
validateUnmarshalTypeFieldsFirst(tgt, fs) ==
    IF tgt \in {"ptr_struct", "nilptr", "structval"} /\ validateStruct(fs) # 0
    THEN [kind |-> "FieldError", field |-> validateStruct(fs),
          problem |-> validateField(fs[validateStruct(fs)])]
    ELSE IF ensureNonNilPointerToStruct(tgt) # ""
    THEN [kind |-> "TypeError", field |-> 0,
          problem |-> ensureNonNilPointerToStruct(tgt)]
    ELSE [kind |-> "nil", field |-> 0, problem |-> ""]

\* validateUnmarshalType: the error Unmarshal returns before decoding
validateUnmarshalType(tgt, fs) ==
    IF ensureNonNilPointerToStruct(tgt) # ""
    THEN [kind |-> "TypeError", field |-> 0,
          problem |-> ensureNonNilPointerToStruct(tgt)]
    ELSE IF validateStruct(fs) # 0
    THEN [kind |-> "FieldError", field |-> validateStruct(fs),
          problem |-> validateField(fs[validateStruct(fs)])]
    ELSE [kind |-> "nil", field |-> 0, problem |-> ""]

\* collectOptions: each option sets byteOrder; the zero value is LittleEndian
RECURSIVE collectOptionsFrom(_, _)
collectOptionsFrom(os, o) ==
    IF Len(os) = 0 THEN o
    ELSE collectOptionsFrom(Tail(os), [byteOrder |-> Head(os)])

\* collectOptions whose zero value is BigEndian
collectOptionsDefaultBig(os) == collectOptionsFrom(os, [byteOrder |-> BigEndian])

collectOptions(os) == collectOptionsFrom(os, [byteOrder |-> LittleEndian])

(***************************************************************************)
(* Extraction.  data is a sequence of bytes, data[iData + 1] being the     *)
(* code's data[iData].  Each result carries the value, the next cursor,    *)
(* and the number of iterations of the outer loop that ran.                *)
(***************************************************************************)
\* the inner loop of parseValueLittleEndian over the bits of one byte
RECURSIVE leBits(_, _, _, _, _)
leBits(d, bitSize, iBitInData, i, val) ==
    IF iBitInData < ByteBits /\ i < bitSize
    THEN leBits(d, bitSize, iBitInData + 1, i + 1,
                Or64(val, Shl64(And64(Shr64(d, iBitInData), One64), i)))
    ELSE [val |-> val, iBitInData |-> iBitInData, i |-> i]

RECURSIVE leLoop(_, _, _, _, _, _, _)
leLoop(data, bitSize, iData, iBitInData, i, val, iters) ==
    IF i < bitSize /\ iData < Len(data)
    THEN LET r == leBits(U64OfByte(data[iData + 1]), bitSize, iBitInData, i, val)
         IN  IF r.iBitInData >= ByteBits
             THEN leLoop(data, bitSize, iData + 1, 0, r.i, r.val, iters + 1)
             ELSE leLoop(data, bitSize, iData, r.iBitInData, r.i, r.val, iters + 1)
    ELSE [val |-> val, iData |-> iData, iBitInData |-> iBitInData,
          got |-> i, iters |-> iters]

\* parseValueLittleEndian that reads from bit 0 of the current byte
parseValueLittleEndianFromBit0(data, bitSize, iData, iBitInData) ==
    leLoop(data, bitSize, iData, 0, 0, Zero64, 0)

\* parseValueLittleEndian that returns the cursor it was given
parseValueLittleEndianKeepingCursor(data, bitSize, iData, iBitInData) ==
    [leLoop(data, bitSize, iData, iBitInData, 0, Zero64, 0)
        EXCEPT !.iData = iData, !.iBitInData = iBitInData]

parseValueLittleEndian(data, bitSize, iData, iBitInData) ==
    leLoop(data, bitSize, iData, iBitInData, 0, Zero64, 0)

\* a chunk width that is the rest of the byte, whatever is still wanted
wantRestOfByte(bitSize, consumedBits, iBitInData) == ByteBits - iBitInData

\* min(bitSize - consumedBits, 8 - iBitInData), as the if/else computes it
wantBitInThisByte(bitSize, consumedBits, iBitInData) ==
    IF (bitSize - consumedBits) < ByteBits - iBitInData
    THEN bitSize - consumedBits
    ELSE ByteBits - iBitInData

\* a chunk taken from the top of the byte: bit 7 - iBitInData downward
beChunkFromTop(byte, iBitInData, want) ==
    And64(U64OfByte(byte \div Pow2(ByteBits - iBitInData - want)),
          U64OfByte(255 \div Pow2(ByteBits - want)))

\* a chunk without the mask: all of the byte from iBitInData upward
beChunkUnmasked(byte, iBitInData, want) == U64OfByte(byte \div Pow2(iBitInData))

\* uint64(b & mask) for b = data[iData] >> iBitInData, mask = 0xff >> (8 - want)
beChunk(byte, iBitInData, want) ==
    And64(U64OfByte(byte \div Pow2(iBitInData)),
          U64OfByte(255 \div Pow2(ByteBits - want)))

RECURSIVE beLoop(_, _, _, _, _, _, _)
beLoop(data, bitSize, iData, iBitInData, consumedBits, val, iters) ==
    IF consumedBits < bitSize /\ iData < Len(data)
    THEN LET want == wantBitInThisByte(bitSize, consumedBits, iBitInData)
             nv == Or64(Shl64(val, want),
                        beChunk(data[iData + 1], iBitInData, want))
         IN  IF iBitInData + want >= ByteBits
             THEN beLoop(data, bitSize, iData + 1, 0, consumedBits + want, nv, iters + 1)
             ELSE beLoop(data, bitSize, iData, iBitInData + want,
                         consumedBits + want, nv, iters + 1)
    ELSE [val |-> val, iData |-> iData, iBitInData |-> iBitInData,
          got |-> consumedBits, iters |-> iters]

\* parseValueBigEndian that folds the bits least significant first
parseValueBigEndianLsbFirst(data, bitSize, iData, iBitInData) ==
    leLoop(data, bitSize, iData, iBitInData, 0, Zero64, 0)

\* parseValueBigEndian that pads the bits the buffer lacks with zeros
parseValueBigEndianPadding(data, bitSize, iData, iBitInData) ==
    LET r == beLoop(data, bitSize, iData, iBitInData, 0, Zero64, 0)
    IN  [r EXCEPT !.val = Shl64(r.val, bitSize - r.got)]

parseValueBigEndian(data, bitSize, iData, iBitInData) ==
    beLoop(data, bitSize, iData, iBitInData, 0, Zero64, 0)

\* parseValue that does not look at the byte order
parseValueIgnoringOrder(data, bitSize, iData, iBitInData, byteOrder) ==
    parseValueLittleEndian(data, bitSize, iData, iBitInData)

parseValue(data, bitSize, iData, iBitInData, byteOrder) ==
    IF byteOrder = LittleEndian
    THEN parseValueLittleEndian(data, bitSize, iData, iBitInData)
    ELSE parseValueBigEndian(data, bitSize, iData, iBitInData)

\* The loops one iteration at a time.  x holds the locals of a call of
\* parseValue: bitSize, val, iData, iBitInData, the bits collected (got: i,
\* consumedBits) and the iterations of the outer loop taken (iters).
\* an iteration of parseValueLittleEndian that stays on the byte it has read
leIterationStalled(data, x) ==
    LET r == leBits(U64OfByte(data[x.iData + 1]), x.bitSize, x.iBitInData,
                    x.got, x.val)
    IN  [x EXCEPT !.val = r.val, !.got = r.i, !.iters = @ + 1,
                  !.iBitInData = r.iBitInData]

\* one iteration of the outer loop of parseValueLittleEndian
leIteration(data, x) ==
    LET r == leBits(U64OfByte(data[x.iData + 1]), x.bitSize, x.iBitInData,
                    x.got, x.val)
    IN  IF r.iBitInData >= ByteBits
        THEN [x EXCEPT !.val = r.val, !.got = r.i, !.iters = @ + 1,
                       !.iData = @ + 1, !.iBitInData = 0]
        ELSE [x EXCEPT !.val = r.val, !.got = r.i, !.iters = @ + 1,
                       !.iBitInData = r.iBitInData]

\* one iteration of the loop of parseValueBigEndian
beIteration(data, x) ==
    LET want == wantBitInThisByte(x.bitSize, x.got, x.iBitInData)
        nv == Or64(Shl64(x.val, want),
                   beChunk(data[x.iData + 1], x.iBitInData, want))
    IN  IF x.iBitInData + want >= ByteBits
        THEN [x EXCEPT !.val = nv, !.got = @ + want, !.iters = @ + 1,
                       !.iData = @ + 1, !.iBitInData = 0]
        ELSE [x EXCEPT !.val = nv, !.got = @ + want, !.iters = @ + 1,
                       !.iBitInData = @ + want]

\* signed that takes the bit above the field as the sign
signedMsbOffByOne(val, bitSize) ==
    Or64(val, Shl64(Sub64(Zero64, Shr64(val, bitSize)), bitSize))

\* signed: val | ((0 - (val >> (bitSize-1))) << bitSize), as an int64 bit pattern
signed(val, bitSize) ==
    Or64(val, Shl64(Sub64(Zero64, Shr64(val, bitSize - 1)), bitSize))

\* reflect.Value.SetUint on a field of `bits` bits: the value is truncated
SetUint(val, bits) == {i \in val : i < bits}

\* reflect.Value.SetInt on a field of `bits` bits: the int64 is truncated to
\* the field's width; the slot holds the field's value as an int64 again
SetInt(val, bits) ==
    {i \in val : i < bits} \cup (IF (bits - 1) \in val THEN bits..(W64 - 1) ELSE {})


(***************************************************************************)
(* One iteration of unmarshal's loop over the fields.  st is the loop's    *)
(* state: the field index, the cursor, the output record, and two logs:    *)
(* written, the fields that were stored to, and parsed, one entry for      *)
(* every call of parseValue.                                               *)
(***************************************************************************)
\* fieldBitSize that takes a plain field as one byte
fieldBitSizePlainByte(f) == IF f.hasTag THEN Atoi(f.tag).val ELSE ByteBits

\* fieldBitSize that takes the natural width of a plain field in bytes
fieldBitSizeInBytes(f) ==
    IF f.hasTag THEN Atoi(f.tag).val ELSE TypeBits(f.kind) \div ByteBits

\* the bit size of a field that is decoded: the tag's value (its error was
\* checked by validateField), else the type's size
fieldBitSize(f) == IF f.hasTag THEN Atoi(f.tag).val ELSE TypeBits(f.kind)

\* unmarshal that skips the fields it cannot store to
isIgnoredOrHidden(f) == ~f.exported \/ (~f.hasTag /\ ~isFixedInteger(f.kind))

\* fields that are neither tagged nor fixed-size integers are ignored
isIgnored(f) == ~f.hasTag /\ ~isFixedInteger(f.kind)

\* an alignment that resets the bit offset and stays on the byte
alignedDataSameByte(f, iData, iBitInData) == iData

\* an alignment that goes to the next byte before every plain field
alignedDataAlways(f, iData, iBitInData) ==
    IF ~f.hasTag THEN iData + 1 ELSE iData

\* the alignment of a plain integer field: the next byte when the previous
\* field was not fully read
alignedData(f, iData, iBitInData) ==
    IF ~f.hasTag /\ iBitInData > 0 THEN iData + 1 ELSE iData

alignedBit(f, iData, iBitInData) ==
    IF ~f.hasTag /\ iBitInData > 0 THEN 0 ELSE iBitInData

\* the value stored in a field of kind `kind`, from the extracted value
storedValue(kind, val, bitSize) ==
    IF CanUint(kind) THEN SetUint(val, TypeBits(kind))
    ELSE SetInt(signed(val, bitSize), TypeBits(kind))

\* a store that does not ask IsExported
isStoredUnexportedToo(f) == CanUint(f.kind) \/ CanInt(f.kind)

isStored(f) == f.exported /\ (CanUint(f.kind) \/ CanInt(f.kind))

\* the loop body with the alignment restart taken for every untagged field,
\* the ignored ones included
unmarshalFieldAligningIgnored(data, fs, byteOrder, st) ==
    LET n == st.iField + 1
        f == fs[n]
        bitSize == fieldBitSize(f)
        d0 == alignedData(f, st.iData, st.iBitInData)
        b0 == alignedBit(f, st.iData, st.iBitInData)
        r == parseValue(data, bitSize, d0, b0, byteOrder)
    IN  IF isIgnored(f)
        THEN [st EXCEPT !.iField = n, !.iData = d0, !.iBitInData = b0]
        ELSE [iField |-> n,
              iData |-> r.iData,
              iBitInData |-> r.iBitInData,
              out |-> IF isStored(f)
                      THEN [st.out EXCEPT ![n] = storedValue(f.kind, r.val, bitSize)]
                      ELSE st.out,
              written |-> IF isStored(f) THEN st.written \cup {n} ELSE st.written,
              parsed |-> Append(st.parsed,
                                [field |-> n, bitSize |-> bitSize,
                                 iData |-> d0, iBitInData |-> b0,
                                 val |-> r.val, got |-> r.got, iters |-> r.iters,
                                 nextIData |-> r.iData,
                                 nextIBitInData |-> r.iBitInData])]

\* the loop body with the sign taken from the top of the bits collected
unmarshalFieldSigningCollected(data, fs, byteOrder, st) ==
    LET n == st.iField + 1
        f == fs[n]
    IN  IF isIgnored(f) THEN [st EXCEPT !.iField = n]
        ELSE
        LET bitSize == fieldBitSize(f)
            d0 == alignedData(f, st.iData, st.iBitInData)
            b0 == alignedBit(f, st.iData, st.iBitInData)
            r == parseValue(data, bitSize, d0, b0, byteOrder)
            signSize == IF r.got > 0 THEN r.got ELSE bitSize
        IN  [iField |-> n,
             iData |-> r.iData,
             iBitInData |-> r.iBitInData,
             out |-> IF isStored(f)
                     THEN [st.out EXCEPT ![n] = storedValue(f.kind, r.val, signSize)]
                     ELSE st.out,
             written |-> IF isStored(f) THEN st.written \cup {n} ELSE st.written,
             parsed |-> Append(st.parsed,
                               [field |-> n, bitSize |-> bitSize,
                                iData |-> d0, iBitInData |-> b0,
                                val |-> r.val, got |-> r.got, iters |-> r.iters,
                                nextIData |-> r.iData,
                                nextIBitInData |-> r.iBitInData])]

\* the loop body with no store when the buffer had no bit left for the field
unmarshalFieldKeepingWhenExhausted(data, fs, byteOrder, st) ==
    LET n == st.iField + 1
        f == fs[n]
    IN  IF isIgnored(f) THEN [st EXCEPT !.iField = n]
        ELSE
        LET bitSize == fieldBitSize(f)
            d0 == alignedData(f, st.iData, st.iBitInData)
            b0 == alignedBit(f, st.iData, st.iBitInData)
            r == parseValue(data, bitSize, d0, b0, byteOrder)
            stores == isStored(f) /\ r.got > 0
        IN  [iField |-> n,
             iData |-> r.iData,
             iBitInData |-> r.iBitInData,
             out |-> IF stores
                     THEN [st.out EXCEPT ![n] = storedValue(f.kind, r.val, bitSize)]
                     ELSE st.out,
             written |-> IF stores THEN st.written \cup {n} ELSE st.written,
             parsed |-> Append(st.parsed,
                               [field |-> n, bitSize |-> bitSize,
                                iData |-> d0, iBitInData |-> b0,
                                val |-> r.val, got |-> r.got, iters |-> r.iters,
                                nextIData |-> r.iData,
                                nextIBitInData |-> r.iBitInData])]

unmarshalField(data, fs, byteOrder, st) ==
    LET n == st.iField + 1
        f == fs[n]
    IN  IF isIgnored(f) THEN [st EXCEPT !.iField = n]
        ELSE
        LET bitSize == fieldBitSize(f)
            d0 == alignedData(f, st.iData, st.iBitInData)
            b0 == alignedBit(f, st.iData, st.iBitInData)
            r == parseValue(data, bitSize, d0, b0, byteOrder)
        IN  [iField |-> n,
             iData |-> r.iData,
             iBitInData |-> r.iBitInData,
             out |-> IF isStored(f)
                     THEN [st.out EXCEPT ![n] = storedValue(f.kind, r.val, bitSize)]
                     ELSE st.out,
             written |-> IF isStored(f) THEN st.written \cup {n} ELSE st.written,
             parsed |-> Append(st.parsed,
                               [field |-> n, bitSize |-> bitSize,
                                iData |-> d0, iBitInData |-> b0,
                                val |-> r.val, got |-> r.got, iters |-> r.iters,
                                nextIData |-> r.iData,
                                nextIBitInData |-> r.iBitInData])]

\* the loop of unmarshal from the state st to its end
RECURSIVE unmarshalFrom(_, _, _, _)
unmarshalFrom(data, fs, byteOrder, st) ==
    IF st.iField < Len(fs)
    THEN unmarshalFrom(data, fs, byteOrder, unmarshalField(data, fs, byteOrder, st))
    ELSE st

\* unmarshal: the loop from iData := 0, iBitInData := 0 over all the fields
unmarshal(data, fs, opt, out0) ==
    unmarshalFrom(data, fs, opt.byteOrder,
                  [iField |-> 0, iData |-> 0, iBitInData |-> 0,
                   out |-> out0, written |-> {}, parsed |-> <<>>])

\* Unmarshal as a function of its arguments: the error returned, and the
\* output record after the call (out0 before it)
Unmarshal(data, fs, os, tgt, out0) ==
    LET e == validateUnmarshalType(tgt, fs)
    IN  IF e.kind # "nil"
        THEN [err |-> e, out |-> out0, written |-> {}, parsed |-> <<>>]
        ELSE LET st == unmarshal(data, fs, collectOptions(os), out0)
             IN  [err |-> e, out |-> st.out, written |-> st.written,
                  parsed |-> st.parsed]

(***************************************************************************)
(* The inputs of the model: decode targets, schemas, buffers and options.  *)
(***************************************************************************)
\* longest schema drawn from a palette
MaxFields == 2
\* longest buffer drawn from ByteVals
MaxLen == 2
\* most plain bytes that precede the field of a width sweep
MaxLead == 1

Tagged(kind, tag) == [exported |-> TRUE, kind |-> kind, hasTag |-> TRUE, tag |-> tag]

Plain(kind) == [exported |-> TRUE, kind |-> kind, hasTag |-> FALSE, tag |-> <<>>]

\* an unexported or blank (_) field
Hidden(f) == [f EXCEPT !.exported = FALSE]

\* the decimal spelling of a natural number
RECURSIVE Digits(_)
Digits(n) ==
    IF n < 10 THEN <<DigitChars[n + 1]>>
    ELSE Append(Digits(n \div 10), DigitChars[(n % 10) + 1])

Bits(kind, w) == Tagged(kind, Digits(w))

\* all sequences over S of length 0..n
RECURSIVE SeqsUpTo(_, _)
SeqsUpTo(S, n) ==
    IF n = 0 THEN {<<>>}
    ELSE LET shorter == SeqsUpTo(S, n - 1)
         IN  shorter \cup {Append(q, x) : q \in {t \in shorter : Len(t) = n - 1}, x \in S}

\* bytes 0xA5 and 0x5A, each bit set in one of them
ByteVals == {165, 90}

\* the input of TestUnmarshal_CompositeOfBitFieldsAndNonNormalInteger
StreamComposite == <<165, 90, 182, 107, 90, 165, 85, 170, 240, 170, 165, 107, 182>>

\* 0x01 0x23 ... 0xEF, the input of TestUnmarshal_PlainIntFields
StreamPlain == <<1, 35, 69, 103, 137, 171, 205, 239, 1, 35, 69, 103, 137, 171, 205,
                 1, 35, 69, 103, 137, 171, 205, 239, 1, 35, 69, 103, 137, 171, 205>>

StreamOnes == [k \in 1..(MaxLead + ByteBits + 1) |-> 255]

\* the prior content of an output slot: zero, or 0x5A
PriorZero == Zero64

PriorPattern == U64OfByte(90)

PriorOf(fs, p) == [k \in 1..Len(fs) |-> p]

Targets == {"nil", "nonptr", "structval", "nilptr", "ptr_nonstruct", "ptr_struct"}

\* fields of valid schemas: bit-fields, plain integers, a placeholder and
\* an ignored field
DecodePalette ==
    { Bits("uint8", 3), Bits("int8", 5), Bits("uint16", 9),
      Plain("uint8"), Plain("int16"), Hidden(Bits("uint8", 4)), Plain("string") }

AllKinds == UintKinds \cup IntKinds \cup OtherKinds

\* spellings of numbers at and beyond the ends of the range of int:
\* 1<<63 - 1, -(1<<63) and 1<<32, which are in it
IntSpellings ==
    { <<"9", "2", "2", "3", "3", "7", "2", "0", "3", "6",
        "8", "5", "4", "7", "7", "5", "8", "0", "7">>,
      <<"-", "9", "2", "2", "3", "3", "7", "2", "0", "3", "6",
        "8", "5", "4", "7", "7", "5", "8", "0", "8">>,
      <<"4", "2", "9", "4", "9", "6", "7", "2", "9", "6">> }

\* 1<<63, -(1<<63) - 1 and twenty nines, which are not
BeyondIntSpellings ==
    { <<"9", "2", "2", "3", "3", "7", "2", "0", "3", "6",
        "8", "5", "4", "7", "7", "5", "8", "0", "8">>,
      <<"-", "9", "2", "2", "3", "3", "7", "2", "0", "3", "6",
        "8", "5", "4", "7", "7", "5", "8", "0", "9">>,
      <<"9", "9", "9", "9", "9", "9", "9", "9", "9", "9", "9",
        "9", "9", "9", "9", "9", "9", "9", "9", "9">> }

\* digits with a character behind them that is no digit: twenty nines,
\* 1<<64 and 1<<64 - 1
MixedSpellings ==
    { <<"9", "9", "9", "9", "9", "9", "9", "9", "9", "9", "9",
        "9", "9", "9", "9", "9", "9", "9", "9", "9", "x">>,
      <<"-", "1", "8", "4", "4", "6", "7", "4", "4", "0", "7", "3",
        "7", "0", "9", "5", "5", "1", "6", "1", "6", "x">>,
      <<"1", "8", "4", "4", "6", "7", "4", "4", "0", "7", "3",
        "7", "0", "9", "5", "5", "1", "6", "1", "5", "x">> }

\* 8 and 9 behind zeros, in twenty characters and more
ZeroPaddedSpellings ==
    { <<"0", "0", "0", "0", "0", "0", "0", "0", "0", "0", "0",
        "0", "0", "0", "0", "0", "0", "0", "0", "8">>,
      <<"+", "0", "0", "0", "0", "0", "0", "0", "0", "0", "0", "0",
        "0", "0", "0", "0", "0", "0", "0", "0", "0", "9">> }

\* spellings of annotations: empty, not a number, out of range, in range
TagSpellings ==
    { <<>>, <<"x">>, <<"-">>, <<"+">>, <<"1", "x">>, <<"-", "1">>, <<"0">>,
      <<"1">>, <<"+", "1">>, <<"0", "7">>, <<"8">>, <<"9">>, <<"1", "6">>,
      <<"1", "7">>, <<"3", "2">>, <<"3", "3">>, <<"6", "4">>, <<"6", "5">> }
    \cup IntSpellings \cup BeyondIntSpellings \cup ZeroPaddedSpellings
    \cup MixedSpellings

\* fields for validation: valid and invalid annotations, and no annotation
ValidationPalette ==
    { Tagged("uint8", <<>>), Bits("uint8", 0), Bits("uint8", 9),
      Bits("uint64", 65), Tagged("int16", <<"x">>), Tagged("struct", <<"1">>),
      Tagged("string", <<"x">>), Bits("int", 4),
      Bits("uint8", 8), Bits("int32", 1), Hidden(Bits("uint16", 17)),
      Plain("uint8"), Plain("struct") }

\* the schema of a width sweep: `lead` plain bytes, a placeholder of `o`
\* bits, then the field
SweepSchema(lead, o, f) ==
    [k \in 1..lead |-> Plain("uint8")]
    \o (IF o > 0 THEN <<Hidden(Bits("uint8", o))>> ELSE <<>>)
    \o <<f>>

\* every valid bit-field and every plain integer field
SweepFields ==
    { Bits(k, w) : k \in UintKinds \cup IntKinds, w \in 1..W64 }
    \cup { Plain(k) : k \in UintKinds \cup IntKinds }

(***************************************************************************)
(* The state machine: one call of Unmarshal.                               *)
(***************************************************************************)
VARIABLES
    data,        \* the buffer
    fields,      \* the schema of the target's struct type
    opts,        \* the options passed, each a byte order
    target,      \* what `out` is
    prior,       \* the output record before the call
    pc,          \* "call", "decode", "return"
    err,         \* the error returned
    options,     \* the resolved options
    iField, iData, iBitInData,   \* unmarshal's loop variables
    out,         \* the output record
    written,     \* the fields stored to
    parsed,      \* the log of parseValue's calls and results
    done,        \* the calls that returned before this one, oldest first
    peer,        \* a second call running at the same time, or NoPeer
    extraction   \* the call of parseValue in progress, or NoExtraction

vars == <<data, fields, opts, target, prior, pc, err, options,
          iField, iData, iBitInData, out, written, parsed, done, peer,
          extraction>>

inputVars == <<data, fields, opts, target, prior>>

\* the other calls: no step of a call touches them
otherCalls == <<done, peer>>

\* there is no second call
NoPeer == [pc |-> "none"]

\* no call of parseValue is in progress
NoExtraction == [pc |-> "none"]

NoError == [kind |-> "nil", field |-> 0, problem |-> ""]

\* the state before the call, for one choice of the inputs
Start(d, fs, os, tgt, p) ==
    /\ data = d
    /\ fields = fs
    /\ opts = os
    /\ target = tgt
    /\ prior = PriorOf(fs, p)
    /\ out = PriorOf(fs, p)
    /\ done = <<>>
    /\ peer = NoPeer
    /\ extraction = NoExtraction
    /\ pc = "call"
    /\ err = NoError
    /\ options = [byteOrder |-> LittleEndian]
    /\ iField = 0
    /\ iData = 0
    /\ iBitInData = 0
    /\ written = {}
    /\ parsed = <<>>

\* valid schemas over short buffers and a test stream, both byte orders
GenericInit ==
    \E d \in SeqsUpTo(ByteVals, MaxLen) \cup {StreamComposite},
       fs \in SeqsUpTo(DecodePalette, MaxFields),
       os \in {<<>>, <<BigEndian>>} :
        Start(d, fs, os, "ptr_struct", PriorPattern)

\* schemas with valid and invalid annotations
ValidationInit ==
    \E fs \in SeqsUpTo(ValidationPalette, MaxFields)
              \cup {<<Tagged(k, t)>> : k \in AllKinds, t \in TagSpellings},
       tgt \in {"ptr_struct", "nilptr", "structval"},
       p \in {PriorZero, PriorPattern} :
        Start(<<165>>, fs, <<>>, tgt, p)

\* the targets that are no pointer to a struct
TargetInit ==
    \E tgt \in Targets \ {"ptr_struct", "nilptr", "structval"}, os \in {<<>>, <<BigEndian>>} :
        Start(<<165>>, <<>>, os, tgt, PriorZero)

\* every width of every kind at every bit offset, over long buffers, with
\* no plain byte before it and with the most
SweepInit ==
    \E d \in {StreamComposite, StreamOnes},
       lead \in {0, MaxLead}, o \in 0..(ByteBits - 1),
       f \in {g \in SweepFields : validateField(g) = ""},
       os \in {<<LittleEndian>>, <<BigEndian>>} :
        Start(d, SweepSchema(lead, o, f), os, "ptr_struct", PriorPattern)

\* W one-bits in ceil(W/8) bytes of 0xFF, into a same-or-wider unsigned field
OnesInit ==
    \E w \in 1..W64, k \in UintKinds, os \in {<<>>, <<LittleEndian>>} :
        /\ TypeBits(k) >= w
        /\ Start([j \in 1..((w + ByteBits - 1) \div ByteBits) |-> 255],
                 <<Bits(k, w)>>, os, "ptr_struct", PriorPattern)

\* fields that a buffer of MaxLen bytes can end in
ExhaustFields ==
    { Bits("uint64", w) : w \in 1..W64 }
    \cup { Bits("int32", w) : w \in 1..32 }
    \cup { Plain("uint32"), Plain("int64") }

\* a field that the buffer may end in, after a placeholder of o bits, and a
\* field after it
ExhaustInit ==
    \E d \in SeqsUpTo(ByteVals, MaxLen),
       o \in {0, 3},
       f \in ExhaustFields,
       g \in {Bits("int8", 5), Plain("uint16")},
       os \in {<<LittleEndian>>, <<BigEndian>>} :
        Start(d, SweepSchema(0, o, f) \o <<g>>, os, "ptr_struct", PriorPattern)

\* signed and unsigned fields wider than the buffers 0x01 0x23, 0xFF and
\* 0xFF 0xFF, after a placeholder of o bits
TruncatedInit ==
    \E d \in {<<1, 35>>, <<255>>, <<255, 255>>},
       o \in {0, 5},
       f \in {Bits("int32", 32), Bits("uint32", 32), Plain("int32"),
               Bits("int16", 13), Plain("int64"), Bits("int64", W64)},
       os \in {<<LittleEndian>>, <<BigEndian>>} :
        Start(d, SweepSchema(0, o, f), os, "ptr_struct", PriorPattern)

\* a placeholder, tagged or plain, between two fields
PlaceholderInit ==
    \E d \in SeqsUpTo(ByteVals, MaxLen) \cup {StreamComposite},
       a \in {Bits("uint8", 3), Plain("uint8")},
       h \in {Bits("uint16", 9), Bits("int8", 4), Plain("int16")},
       b \in {Bits("uint8", 5), Plain("uint16")},
       os \in {<<>>, <<BigEndian>>},
       p \in {PriorZero, PriorPattern} :
        Start(d, <<a, Hidden(h), b>>, os, "ptr_struct", p)

\* untagged fields of kinds that are no fixed-size integers
IgnoredFields ==
    { Plain("string"), Plain("struct"), Plain("int"), Plain("uint"),
      Hidden(Plain("string")) }

\* two fields with ignored fields between, before and after them
IgnoredInit ==
    \E d \in SeqsUpTo(ByteVals, MaxLen) \cup {StreamComposite},
       a \in {Bits("uint8", 3), Plain("uint8")},
       b \in {Bits("int8", 5), Bits("uint16", 13), Plain("uint16")},
       pre \in {<<>>, <<Plain("string")>>},
       mid \in {<<g>> : g \in IgnoredFields} \cup {<<Plain("int"), Plain("struct")>>},
       post \in {<<>>, <<Plain("uint")>>},
       os \in {<<>>, <<BigEndian>>} :
        Start(d, pre \o <<a>> \o mid \o <<b>> \o post, os, "ptr_struct", PriorPattern)

\* the decodings of the repository's tests, examples and documentation
Examples ==
    { \* ExampleUnmarshal: 0x12 0x34 0x56 0x78
      [data |-> <<18, 52, 86, 120>>, opts |-> <<>>,
       fields |-> <<Bits("uint8", 4), Bits("uint8", 8), Bits("uint32", 20)>>],
      \* TestUnmarshal_BigEndian_4byte_Composite: 0x5A 0xA5 0x5A 0xA5
      [data |-> <<90, 165, 90, 165>>, opts |-> <<BigEndian>>,
       fields |-> <<Bits("uint8", 3), Bits("uint32", 18), Bits("uint8", 3),
                    Plain("uint8")>>],
      \* TestUnmarshal_BigEndian_PartOfIPv6Header: 0x06 0x90 0x95 0xC4
      [data |-> <<6, 144, 149, 196>>, opts |-> <<BigEndian>>,
       fields |-> <<Bits("uint8", 4), Bits("uint8", 8), Bits("uint32", 20)>>],
      \* the doc comment of Unmarshal: 0x55 0xAA, with and without a bit tag
      [data |-> <<85, 170>>, opts |-> <<>>,
       fields |-> <<Bits("uint8", 4), Plain("uint8")>>],
      [data |-> <<85, 170>>, opts |-> <<>>,
       fields |-> <<Bits("uint8", 4), Bits("uint8", 8)>>],
      \* TestUnmarshalByteOrder: 0x01 0x23 0x45 0x67
      [data |-> <<1, 35, 69, 103>>, opts |-> <<LittleEndian>>,
       fields |-> <<Plain("uint32")>>],
      [data |-> <<1, 35, 69, 103>>, opts |-> <<BigEndian>>,
       fields |-> <<Plain("uint32")>>],
      \* README: 0xA5
      [data |-> <<165>>, opts |-> <<>>,
       fields |-> <<Bits("uint8", 1), Bits("uint8", 2), Hidden(Bits("uint8", 1)),
                    Bits("uint8", 4)>>],
      \* TestUnmarshal_notExported: 0b10111001 0b10011001
      [data |-> <<185, 153>>, opts |-> <<>>,
       fields |-> <<Bits("uint8", 5), Hidden(Bits("uint8", 3)),
                    Hidden(Bits("uint8", 2)), Bits("uint8", 6)>>],
      \* TestUnmarshal_BigEndian_1byteFirstPart, _LastPart: 0x5A
      [data |-> <<90>>, opts |-> <<BigEndian>>, fields |-> <<Bits("uint8", 5)>>],
      [data |-> <<90>>, opts |-> <<BigEndian>>,
       fields |-> <<Hidden(Bits("uint8", 1)), Bits("uint8", 7)>>],
      \* TestUnmarshal_BigEndian_1byteCenterPart: 0x5A
      [data |-> <<90>>, opts |-> <<BigEndian>>,
       fields |-> <<Hidden(Bits("uint8", 3)), Bits("uint8", 2),
                    Hidden(Bits("uint8", 3))>>],
      \* TestUnmarshal_BigEndian_4byte_Full: 0x5A 0xA5 0x5A 0xA5
      [data |-> <<90, 165, 90, 165>>, opts |-> <<BigEndian>>,
       fields |-> <<Bits("uint32", 32)>>],
      \* TestUnmarshalSignedInt: 0b11101101
      [data |-> <<237>>, opts |-> <<>>,
       fields |-> <<Bits("uint8", 1), Bits("uint8", 2), Bits("int8", 5)>>],
      \* TestUnmarshal_CompositeOfBitFieldsAndNonNormalInteger
      [data |-> StreamComposite, opts |-> <<>>,
       fields |-> <<Bits("uint8", 6), Bits("uint8", 2), Plain("int8"),
                    Bits("int16", 10), Bits("int8", 6), Plain("uint32"),
                    Plain("uint8"), Bits("uint8", 5), Bits("uint8", 3),
                    Bits("uint8", 3), Plain("uint16")>>],
      \* TestUnmarshal_PlainIntFields
      [data |-> StreamPlain, opts |-> <<>>,
       fields |-> <<Plain("uint8"), Plain("uint16"), Plain("uint32"),
                    Plain("uint64"), Plain("int8"), Plain("int16"),
                    Plain("int32"), Plain("int64")>>] }

ExampleInit ==
    \E x \in Examples, p \in {PriorZero, PriorPattern} :
        Start(x.data, x.fields, x.opts, "ptr_struct", p)

Init ==
    \/ GenericInit \/ ValidationInit \/ TargetInit \/ SweepInit \/ OnesInit
    \/ ExhaustInit \/ PlaceholderInit \/ IgnoredInit \/ ExampleInit
    \/ TruncatedInit

loopState ==
    [iField |-> iField, iData |-> iData, iBitInData |-> iBitInData,
     out |-> out, written |-> written, parsed |-> parsed]

\* Unmarshal that has decoded the first field when it reports a later one
ValidateWhileDecoding ==
    /\ pc = "call"
    /\ \E e \in {validateUnmarshalType(target, fields)} :
        IF e.kind = "FieldError" /\ e.field > 1
        THEN \E st \in {unmarshalField(data, fields, LittleEndian, loopState)} :
                /\ err' = e
                /\ pc' = "return"
                /\ out' = st.out
                /\ written' = st.written
                /\ UNCHANGED <<inputVars, otherCalls, extraction, options, iField, iData, iBitInData, parsed>>
        ELSE /\ err' = e
             /\ pc' = IF e.kind # "nil" THEN "return" ELSE "decode"
             /\ options' = collectOptions(opts)
             /\ UNCHANGED <<inputVars, otherCalls, extraction, iField, iData, iBitInData, out, written, parsed>>

\* Unmarshal up to the call of unmarshal: validateUnmarshalType, collectOptions
Validate ==
    /\ pc = "call"
    /\ LET e == validateUnmarshalType(target, fields)
       IN  IF e.kind # "nil"
           THEN /\ err' = e
                /\ pc' = "return"
                /\ options' = options
           ELSE /\ err' = err
                /\ pc' = "decode"
                /\ options' = collectOptions(opts)
    /\ UNCHANGED <<inputVars, otherCalls, extraction, iField, iData, iBitInData, out, written, parsed>>

\* one iteration of the loop of unmarshal
DecodeField ==
    /\ pc = "decode"
    /\ iField < Len(fields)
    /\ \E st \in {unmarshalField(data, fields, options.byteOrder, loopState)} :
           /\ iField' = st.iField
           /\ iData' = st.iData
           /\ iBitInData' = st.iBitInData
           /\ out' = st.out
           /\ written' = st.written
           /\ parsed' = st.parsed
    /\ UNCHANGED <<inputVars, otherCalls, extraction, pc, err, options>>

\* a return that reports a buffer too short for the schema
ReturnShortBuffer ==
    /\ pc = "decode"
    /\ iField = Len(fields)
    /\ pc' = "return"
    /\ err' = IF \E k \in 1..Len(parsed) : parsed[k].got < parsed[k].bitSize
              THEN [kind |-> "EOF", field |-> 0, problem |-> "unexpected end of data"]
              ELSE NoError
    /\ UNCHANGED <<inputVars, otherCalls, extraction, options, iField, iData, iBitInData, out, written, parsed>>

\* the loop ends; Unmarshal returns nil
Return ==
    /\ pc = "decode"
    /\ iField = Len(fields)
    /\ pc' = "return"
    /\ err' = NoError
    /\ UNCHANGED <<inputVars, otherCalls, extraction, options, iField, iData, iBitInData, out, written, parsed>>

Next == Validate \/ DecodeField \/ Return

Spec == Init /\ [][Next]_vars

(***************************************************************************)
(* Calls one after another: when a call has returned, the caller calls     *)
(* Unmarshal again, with the same or other arguments, and with a fresh     *)
(* output record or the record the last call decoded into.                 *)
(***************************************************************************)
\* most calls made one after another
MaxCalls == 2

\* the arguments of the calls made one after another
SeqCalls ==
    { [data |-> d, fields |-> fs, opts |-> os, target |-> "ptr_struct"] :
        d \in {<<165, 90>>, <<90>>},
        fs \in { <<Bits("uint8", 3), Plain("int16")>>,
                 <<Bits("int8", 5), Hidden(Bits("uint8", 4)), Plain("string"),
                   Bits("uint16", 9)>> },
        os \in {<<>>, <<BigEndian>>} }
    \cup { [data |-> <<165, 90>>, opts |-> <<>>, target |-> "ptr_struct",
            fields |-> <<Bits("uint8", 3), Bits("uint8", 9)>>],
           [data |-> <<165, 90>>, opts |-> <<>>, target |-> "nilptr",
            fields |-> <<Bits("uint8", 3), Plain("int16")>>] }

InitSeq ==
    \E c \in SeqCalls, p \in {PriorZero, PriorPattern} :
        Start(c.data, c.fields, c.opts, c.target, p)

\* what is kept of a call that has returned
Returned ==
    [data |-> data, fields |-> fields, opts |-> opts, target |-> target,
     prior |-> prior, err |-> err, out |-> out, written |-> written]

\* the output records the next call may be given: a fresh one, or the one
\* the call before it decoded into, when it is of the same struct type
RecordsFor(fs) ==
    {PriorOf(fs, PriorZero), PriorOf(fs, PriorPattern)}
    \cup (IF fs = fields THEN {out} ELSE {})

\* a next call that goes on from the cursor of the call before it
CallAgainKeepingCursor ==
    /\ pc = "return"
    /\ Len(done) + 1 < MaxCalls
    /\ \E c \in SeqCalls : \E p \in RecordsFor(c.fields) :
          /\ data' = c.data
          /\ fields' = c.fields
          /\ opts' = c.opts
          /\ target' = c.target
          /\ prior' = p
          /\ out' = p
    /\ done' = Append(done, Returned)
    /\ pc' = "call"
    /\ err' = NoError
    /\ options' = [byteOrder |-> LittleEndian]
    /\ iField' = 0
    /\ written' = {}
    /\ parsed' = <<>>
    /\ UNCHANGED <<iData, iBitInData, peer, extraction>>

\* the next call of Unmarshal: its parameters, and its locals as declared
CallAgain ==
    /\ pc = "return"
    /\ Len(done) + 1 < MaxCalls
    /\ \E c \in SeqCalls : \E p \in RecordsFor(c.fields) :
          /\ data' = c.data
          /\ fields' = c.fields
          /\ opts' = c.opts
          /\ target' = c.target
          /\ prior' = p
          /\ out' = p
    /\ done' = Append(done, Returned)
    /\ pc' = "call"
    /\ err' = NoError
    /\ options' = [byteOrder |-> LittleEndian]
    /\ iField' = 0
    /\ iData' = 0
    /\ iBitInData' = 0
    /\ written' = {}
    /\ parsed' = <<>>
    /\ UNCHANGED <<peer, extraction>>

NextSeq == Validate \/ DecodeField \/ Return \/ CallAgain

SpecSeq == InitSeq /\ [][NextSeq]_vars

(***************************************************************************)
(* Two calls at the same time, on their own buffers and output records.    *)
(* peer holds the second call: its arguments, its locals and its output    *)
(* record.  A step is one step of either call.                             *)
(***************************************************************************)
\* the variables of the first call
callVars == <<inputVars, pc, err, options, iField, iData, iBitInData, out,
              written, parsed, done, extraction>>

\* the second call before its first step
PeerCall(c, p) ==
    [data |-> c.data, fields |-> c.fields, opts |-> c.opts, target |-> c.target,
     prior |-> PriorOf(c.fields, p), out |-> PriorOf(c.fields, p),
     pc |-> "call", err |-> NoError,
     options |-> [byteOrder |-> LittleEndian],
     iField |-> 0, iData |-> 0, iBitInData |-> 0,
     written |-> {}, parsed |-> <<>>]

InitConc ==
    \E c \in SeqCalls, p \in {PriorZero, PriorPattern},
       c2 \in SeqCalls, p2 \in {PriorZero, PriorPattern} :
        /\ data = c.data
        /\ fields = c.fields
        /\ opts = c.opts
        /\ target = c.target
        /\ prior = PriorOf(c.fields, p)
        /\ out = PriorOf(c.fields, p)
        /\ done = <<>>
        /\ peer = PeerCall(c2, p2)
        /\ extraction = NoExtraction
        /\ pc = "call"
        /\ err = NoError
        /\ options = [byteOrder |-> LittleEndian]
        /\ iField = 0
        /\ iData = 0
        /\ iBitInData = 0
        /\ written = {}
        /\ parsed = <<>>

\* the second call's Unmarshal up to the call of unmarshal
PeerValidate ==
    /\ peer.pc = "call"
    /\ \E e \in {validateUnmarshalType(peer.target, peer.fields)} :
          peer' = IF e.kind # "nil"
                  THEN [peer EXCEPT !.err = e, !.pc = "return"]
                  ELSE [peer EXCEPT !.pc = "decode",
                                    !.options = collectOptions(peer.opts)]
    /\ UNCHANGED callVars

\* the loop variables of the second call
peerLoopState ==
    [iField |-> peer.iField, iData |-> peer.iData, iBitInData |-> peer.iBitInData,
     out |-> peer.out, written |-> peer.written, parsed |-> peer.parsed]

\* an iteration of the second call that uses one cursor with the first call
PeerDecodeFieldSharedCursor ==
    /\ peer.pc = "decode"
    /\ peer.iField < Len(peer.fields)
    /\ \E st \in {unmarshalField(peer.data, peer.fields, peer.options.byteOrder,
                                  [peerLoopState EXCEPT !.iData = iData,
                                                        !.iBitInData = iBitInData])} :
          /\ peer' = [peer EXCEPT !.iField = st.iField, !.iData = st.iData,
                                  !.iBitInData = st.iBitInData, !.out = st.out,
                                  !.written = st.written, !.parsed = st.parsed]
          /\ iData' = st.iData
          /\ iBitInData' = st.iBitInData
    /\ UNCHANGED <<inputVars, pc, err, options, iField, out, written, parsed, done,
                   extraction>>

\* one iteration of the loop of unmarshal in the second call
PeerDecodeField ==
    /\ peer.pc = "decode"
    /\ peer.iField < Len(peer.fields)
    /\ \E st \in {unmarshalField(peer.data, peer.fields, peer.options.byteOrder,
                                  peerLoopState)} :
          peer' = [peer EXCEPT !.iField = st.iField, !.iData = st.iData,
                               !.iBitInData = st.iBitInData, !.out = st.out,
                               !.written = st.written, !.parsed = st.parsed]
    /\ UNCHANGED callVars

\* the second call's loop ends; its Unmarshal returns nil
PeerReturn ==
    /\ peer.pc = "decode"
    /\ peer.iField = Len(peer.fields)
    /\ peer' = [peer EXCEPT !.pc = "return", !.err = NoError]
    /\ UNCHANGED callVars

NextConc ==
    \/ Validate \/ DecodeField \/ Return
    \/ PeerValidate \/ PeerDecodeField \/ PeerReturn

SpecConc == InitConc /\ [][NextConc]_vars

(***************************************************************************)
(* One call, the loops of parseValue taken one iteration at a time.        *)
(* extraction holds the locals of the call of parseValue in progress: the  *)
(* width asked for, the cursor it was called with, val, its own iData and  *)
(* iBitInData, the bits collected (i, consumedBits) and the iterations of  *)
(* the outer loop taken.  The call runs on its own: a step that can be     *)
(* taken is taken.                                                         *)
(***************************************************************************)
\* the fields of the schemas of the step-by-step call
StepFields ==
    { Bits("uint64", w) : w \in {1, 8, 9, 17, W64} }
    \cup { Bits("int8", 5), Plain("uint16"), Plain("int64"), Plain("string") }

InitLive ==
    \/ \E d \in SeqsUpTo(ByteVals, MaxLen) \cup {StreamComposite},
          lead \in 0..MaxLead, o \in {0, 3, 7},
          f \in StepFields,
          g \in {Bits("int8", 5), Plain("uint16")},
          os \in {<<>>, <<BigEndian>>} :
           Start(d, SweepSchema(lead, o, f) \o <<g>>, os, "ptr_struct", PriorPattern)
    \/ \E fs \in {<<Bits("uint8", 3), Bits("uint8", 9)>>, <<>>},
          tgt \in {"ptr_struct", "nilptr"} :
           Start(<<165>>, fs, <<>>, tgt, PriorZero)

\* the loop condition of parseValueLittleEndian and parseValueBigEndian
extractionGoesOn ==
    /\ extraction.pc = "loop"
    /\ extraction.got < extraction.bitSize
    /\ extraction.iData < Len(data)

\* the loop body of unmarshal up to the call of parseValue
BeginField ==
    /\ pc = "decode"
    /\ extraction = NoExtraction
    /\ iField < Len(fields)
    /\ \E f \in {fields[iField + 1]} :
          IF isIgnored(f)
          THEN /\ iField' = iField + 1
               /\ UNCHANGED <<iData, iBitInData, extraction>>
          ELSE /\ iField' = iField
               /\ iData' = alignedData(f, iData, iBitInData)
               /\ iBitInData' = alignedBit(f, iData, iBitInData)
               /\ extraction' =
                     [pc |-> "loop", bitSize |-> fieldBitSize(f),
                      iData0 |-> alignedData(f, iData, iBitInData),
                      iBitInData0 |-> alignedBit(f, iData, iBitInData),
                      val |-> Zero64,
                      iData |-> alignedData(f, iData, iBitInData),
                      iBitInData |-> alignedBit(f, iData, iBitInData),
                      got |-> 0, iters |-> 0]
    /\ UNCHANGED <<inputVars, otherCalls, pc, err, options, out, written, parsed>>

\* one iteration of the loop of parseValue, in the byte order of the call
LoopIteration ==
    /\ extractionGoesOn
    /\ extraction' = IF options.byteOrder = LittleEndian
                     THEN leIteration(data, extraction)
                     ELSE beIteration(data, extraction)
    /\ UNCHANGED <<inputVars, otherCalls, pc, err, options, iField, iData,
                   iBitInData, out, written, parsed>>

\* parseValue returns; the loop body of unmarshal from the assignment of
\* its results to the store
EndField ==
    /\ extraction.pc = "loop"
    /\ ~extractionGoesOn
    /\ \E f \in {fields[iField + 1]} :
          /\ out' = IF isStored(f)
                    THEN [out EXCEPT ![iField + 1] =
                            storedValue(f.kind, extraction.val, extraction.bitSize)]
                    ELSE out
          /\ written' = IF isStored(f) THEN written \cup {iField + 1} ELSE written
    /\ iData' = extraction.iData
    /\ iBitInData' = extraction.iBitInData
    /\ parsed' = Append(parsed,
                        [field |-> iField + 1, bitSize |-> extraction.bitSize,
                         iData |-> extraction.iData0,
                         iBitInData |-> extraction.iBitInData0,
                         val |-> extraction.val, got |-> extraction.got,
                         iters |-> extraction.iters,
                         nextIData |-> extraction.iData,
                         nextIBitInData |-> extraction.iBitInData])
    /\ iField' = iField + 1
    /\ extraction' = NoExtraction
    /\ UNCHANGED <<inputVars, otherCalls, pc, err, options>>

NextLive == Validate \/ BeginField \/ LoopIteration \/ EndField \/ Return

SpecLive == InitLive /\ [][NextLive]_vars /\ WF_vars(NextLive)


(***************************************************************************)
(* Reference definitions for the properties.                               *)
(***************************************************************************)
\* bit q of the buffer read as one stream, bit 0 of byte 0 first
StreamBit(d, q) == BitOf(d[(q \div ByteBits) + 1], q % ByteBits)

\* the bits of floor(S / 2^p) mod 2^w for S the sum of d[j] * 2^(8j)
RefLittle(d, p, w) == {i \in 0..(w - 1) : StreamBit(d, p + i) = 1}

\* the chunk of byte q \div 8 that a w-bit field starting at bit p takes
ChunkStart(p, q) ==
    IF p > ByteBits * (q \div ByteBits) THEN p ELSE ByteBits * (q \div ByteBits)

ChunkEnd(p, w, q) ==
    IF p + w < ByteBits * (q \div ByteBits) + ByteBits THEN p + w
    ELSE ByteBits * (q \div ByteBits) + ByteBits

\* the concatenation of the chunks, the earliest in the highest position:
\* stream bit q lies (q - start) above the low end of its chunk, which lies
\* w - (end - p) above bit 0 of the result
RefBig(d, p, w) ==
    { (w - (ChunkEnd(p, w, q) - p)) + (q - ChunkStart(p, q)) :
        q \in {t \in p..(p + w - 1) : StreamBit(d, t) = 1} }

\* the integer of the n bytes d[k], .., d[k+n-1], least significant first
RefBytesLittle(d, k, n) ==
    UNION { {ByteBits * j + t : t \in U64OfByte(d[k + j + 1])} : j \in 0..(n - 1) }

\* the same, most significant first
RefBytesBig(d, k, n) ==
    UNION { {ByteBits * (n - 1 - j) + t : t \in U64OfByte(d[k + j + 1])} :
             j \in 0..(n - 1) }

\* the natural width of the fixed-size integer kinds
NaturalWidth ==
    [k \in UintKinds \cup IntKinds |->
        IF k \in {"uint8", "int8"} THEN 8
        ELSE IF k \in {"uint16", "int16"} THEN 16
        ELSE IF k \in {"uint32", "int32"} THEN 32
        ELSE 64]

\* the annotation spells the number n: an optional +, zeros, then n's digits
RECURSIVE StripZeros(_)
StripZeros(t) ==
    IF Len(t) > 1 /\ t[1] = "0" THEN StripZeros(Tail(t)) ELSE t

Denotes(tag, n) ==
    /\ Len(tag) > 0
    /\ LET body == IF tag[1] = "+" THEN Tail(tag) ELSE tag
       IN  Len(body) > 0 /\ StripZeros(body) = Digits(n)

\* position of the cursor in bits
BitPos(d, b) == ByteBits * d + b

StartPos(e) == BitPos(e.iData, e.iBitInData)

EndPos(e) == BitPos(e.nextIData, e.nextIBitInData)

\* the buffer holds all the bits of the extraction e
LongEnough(e) == StartPos(e) + e.bitSize <= ByteBits * Len(data)

RECURSIVE SumBitSizes(_, _)
SumBitSizes(log, k) == IF k = 0 THEN 0 ELSE SumBitSizes(log, k - 1) + log[k].bitSize

\* the first k fields are all bit-fields
AllTagged(k) == \A j \in 1..k : fields[j].hasTag

\* the value of the low n bits of v, for n small enough for an integer
RECURSIVE LowInt(_, _)
LowInt(v, n) == IF n = 0 THEN 0 ELSE LowInt(v, n - 1) + Bit64(v, n - 1) * Pow2(n - 1)

\* the value of an output slot as a number, for values below 2^31
Num(v) == LowInt(v, 31)

(***************************************************************************)
(* C1: under LittleEndian, when the buffer is long enough, a bit-field of  *)
(* width W extracted from cursor (b, o) has the value                      *)
(* floor(S / 2^(8b+o)) mod 2^W of the buffer-wide LSB-first stream S and   *)
(* leaves the cursor W bits further; in a schema of consecutive bit-fields *)
(* the k-th field starts at the sum of the widths before it.  Widths 4, 8, *)
(* 20 over 0x12 0x34 0x56 0x78 give 0x2, 0x41, 0x78563.                    *)
(***************************************************************************)
C1_LittleEndianPacking ==
    /\ \A k \in 1..Len(parsed) :
          LET e == parsed[k]
          IN  (options.byteOrder = LittleEndian /\ fields[e.field].hasTag
               /\ LongEnough(e))
              => /\ Denotes(fields[e.field].tag, e.bitSize)
                 /\ e.val = RefLittle(data, StartPos(e), e.bitSize)
                 /\ EndPos(e) = StartPos(e) + e.bitSize
                 /\ e.nextIBitInData \in 0..(ByteBits - 1)
                 /\ AllTagged(e.field)
                    => (e.field = k /\ StartPos(e) = SumBitSizes(parsed, k - 1))
    /\ (/\ pc = "return"
        /\ data = <<18, 52, 86, 120>>
        /\ fields = <<Bits("uint8", 4), Bits("uint8", 8), Bits("uint32", 20)>>
        /\ opts = <<>>)
       => (Num(out[1]) = 2 /\ Num(out[2]) = 65 /\ Num(out[3]) = 492899)

\* a 64-bit bit-field that starts inside the second byte has been extracted
C1_Witness ==
    /\ options.byteOrder = LittleEndian
    /\ \E k \in 1..Len(parsed) :
          /\ fields[parsed[k].field].hasTag
          /\ parsed[k].bitSize = W64
          /\ parsed[k].iData = 1
          /\ parsed[k].iBitInData = 5
          /\ LongEnough(parsed[k])
          /\ parsed[k].val # {}

(***************************************************************************)
(* C2: under BigEndian, when the buffer is long enough, a bit-field of     *)
(* width W extracted from cursor (b, o) is the concatenation of the chunks *)
(* taken from successive bytes (each the bits of the byte from bitOffset   *)
(* up, at most as many as are still wanted), the earliest chunk highest,   *)
(* and the cursor ends W bits further; for o = 0 and W a multiple of 8 it  *)
(* is the big-endian integer of the W/8 bytes.  Widths 3, 18, 3 and a      *)
(* plain byte over 0x5A 0xA5 0x5A 0xA5 give 0x2, 0x174BA, 0x2, 0xA5.       *)
(***************************************************************************)
C2_BigEndianPacking ==
    /\ \A k \in 1..Len(parsed) :
          LET e == parsed[k]
          IN  (options.byteOrder = BigEndian /\ fields[e.field].hasTag
               /\ LongEnough(e))
              => /\ e.val = RefBig(data, StartPos(e), e.bitSize)
                 /\ EndPos(e) = StartPos(e) + e.bitSize
                 /\ e.nextIBitInData \in 0..(ByteBits - 1)
                 /\ (e.iBitInData = 0 /\ e.bitSize % ByteBits = 0)
                    => e.val = RefBytesBig(data, e.iData, e.bitSize \div ByteBits)
    /\ (/\ pc = "return"
        /\ data = <<90, 165, 90, 165>>
        /\ fields = <<Bits("uint8", 3), Bits("uint32", 18), Bits("uint8", 3),
                      Plain("uint8")>>
        /\ opts = <<BigEndian>>)
       => (/\ Num(out[1]) = 2 /\ Num(out[2]) = 95418
           /\ Num(out[3]) = 2 /\ Num(out[4]) = 165)

\* a bit-field whose chunks come from six bytes has been extracted
C2_Witness ==
    /\ options.byteOrder = BigEndian
    /\ \E k \in 1..Len(parsed) :
          /\ fields[parsed[k].field].hasTag
          /\ parsed[k].bitSize = 37
          /\ parsed[k].iBitInData = 6
          /\ parsed[k].iters = 6
          /\ LongEnough(parsed[k])
          /\ parsed[k].val # {}

(***************************************************************************)
(* C3: a plain integer field of N bytes that starts at byte k with N bytes *)
(* available decodes to the integer assembled from data[k..k+N-1] in the   *)
(* byte order: least significant byte first under LittleEndian, most       *)
(* significant first under BigEndian, for N in {1,2,4,8}.  0x01 0x23 0x45  *)
(* 0x67 as a uint32 is 0x67452301 and 0x01234567.                          *)
(***************************************************************************)
C3_PlainFieldByteOrder ==
    /\ \A k \in 1..Len(parsed) :
          LET e == parsed[k]
              n == NaturalWidth[fields[e.field].kind] \div ByteBits
          IN  (~fields[e.field].hasTag /\ e.iData + n <= Len(data))
              => /\ n \in {1, 2, 4, 8}
                 /\ e.iBitInData = 0
                 /\ e.bitSize = ByteBits * n
                 /\ e.val = IF options.byteOrder = LittleEndian
                            THEN RefBytesLittle(data, e.iData, n)
                            ELSE RefBytesBig(data, e.iData, n)
    /\ (pc = "return" /\ data = <<1, 35, 69, 103>> /\ fields = <<Plain("uint32")>>)
       => /\ opts = <<LittleEndian>> => Num(out[1]) = 1732584193
          /\ opts = <<BigEndian>> => Num(out[1]) = 19088743

\* a plain 8-byte field has been decoded under BigEndian from byte 2
C3_Witness ==
    /\ options.byteOrder = BigEndian
    /\ \E k \in 1..Len(parsed) :
          /\ ~fields[parsed[k].field].hasTag
          /\ parsed[k].bitSize = W64
          /\ parsed[k].iData = 2
          /\ parsed[k].got = W64
          /\ parsed[k].val # RefBytesLittle(data, 2, 8)

(***************************************************************************)
(* C4: before a plain integer field is decoded the cursor moves to bit 0   *)
(* of the next byte exactly when the bit offset is not 0, and stays when   *)
(* it is 0; a bit-field continues from the bit after the last parsed bit.  *)
(* Over 0x55 0xAA, a 4-bit field and a plain uint8 give 0x5 and 0xAA; a    *)
(* 4-bit and an 8-bit field give 0x5 and 0xA5.                             *)
(***************************************************************************)
\* the cursor when the k-th extraction was reached
CursorBefore(k) ==
    IF k = 1 THEN [iData |-> 0, iBitInData |-> 0]
    ELSE [iData |-> parsed[k - 1].nextIData,
          iBitInData |-> parsed[k - 1].nextIBitInData]

C4_AlignmentRestart ==
    /\ \A k \in 1..Len(parsed) :
          LET e == parsed[k]
              c == CursorBefore(k)
          IN  IF fields[e.field].hasTag
              THEN e.iData = c.iData /\ e.iBitInData = c.iBitInData
              ELSE /\ e.iBitInData = 0
                   /\ c.iBitInData # 0 => e.iData = c.iData + 1
                   /\ c.iBitInData = 0 => e.iData = c.iData
    /\ (pc = "return" /\ data = <<85, 170>> /\ opts = <<>>)
       => /\ fields = <<Bits("uint8", 4), Plain("uint8")>>
             => (Num(out[1]) = 5 /\ Num(out[2]) = 170)
          /\ fields = <<Bits("uint8", 4), Bits("uint8", 8)>>
             => (Num(out[1]) = 5 /\ Num(out[2]) = 165)

\* a plain field was decoded after a bit-field that ended inside a byte
C4_Witness ==
    \E k \in 2..Len(parsed) :
        /\ ~fields[parsed[k].field].hasTag
        /\ parsed[k - 1].nextIBitInData = 4
        /\ parsed[k].iData = parsed[k - 1].nextIData + 1
        /\ parsed[k].got = parsed[k].bitSize

(***************************************************************************)
(* C5: a signed field of effective width W (declared or natural) whose     *)
(* extracted value is r is stored as r - 2^W when bit W-1 of r is 1 and as *)
(* r when it is 0, also for W = 64 and for W smaller than the container.   *)
(* The 5-bit field of 0b11101101 after 3 bits is -3.                       *)
(***************************************************************************)
\* 2^w as a uint64: 2^64 is 0 modulo 2^64
Pow2U64(w) == IF w < W64 THEN {w} ELSE {}

\* the number an int64 bit pattern stands for, for numbers of at most 31 bits
SNum(v) == LowInt(v, 30) - (IF (W64 - 1) \in v THEN Pow2(30) ELSE 0)

C5_SignExtension ==
    /\ \A k \in 1..Len(parsed) :
          LET e == parsed[k]
              f == fields[e.field]
              w == e.bitSize
              r == e.val
              stored == out[e.field]
          IN  (f.exported /\ f.kind \in IntKinds)
              => /\ w \in 1..NaturalWidth[f.kind]
                 /\ w = IF f.hasTag THEN Atoi(f.tag).val ELSE NaturalWidth[f.kind]
                 /\ r \subseteq 0..(w - 1)
                 /\ stored = IF (w - 1) \in r THEN Sub64(r, Pow2U64(w)) ELSE r
                 /\ ((W64 - 1) \in stored) = ((w - 1) \in r)
                 /\ \A i \in (NaturalWidth[f.kind] - 1)..(W64 - 1) :
                        (i \in stored) = ((W64 - 1) \in stored)
                 /\ w <= 30 => SNum(stored) = Num(r) - (IF (w - 1) \in r THEN Pow2(w) ELSE 0)
    /\ (/\ pc = "return"
        /\ data = <<237>>
        /\ fields = <<Bits("uint8", 1), Bits("uint8", 2), Bits("int8", 5)>>)
       => SNum(out[3]) = 0 - 3

\* a 64-bit signed bit-field with its top bit set has been stored
C5_Witness ==
    \E k \in 1..Len(parsed) :
        /\ fields[parsed[k].field].kind = "int64"
        /\ fields[parsed[k].field].hasTag
        /\ parsed[k].bitSize = W64
        /\ (W64 - 1) \in parsed[k].val
        /\ parsed[k].field \in written
        /\ out[parsed[k].field] = parsed[k].val

(***************************************************************************)
(* C6: for every W in 1..64, W one-bits decoded little-endian from         *)
(* ceil(W/8) bytes of 0xFF into an unsigned field at least W bits wide     *)
(* give 2^W - 1.                                                           *)
(***************************************************************************)
\* the call decodes one unsigned bit-field of width w from ceil(w/8) bytes 0xFF
OnesCase(w) ==
    /\ Len(fields) = 1
    /\ fields[1].exported /\ fields[1].hasTag
    /\ fields[1].kind \in UintKinds
    /\ Denotes(fields[1].tag, w)
    /\ w <= NaturalWidth[fields[1].kind]
    /\ opts \in {<<>>, <<LittleEndian>>}
    /\ target = "ptr_struct"
    /\ data = [j \in 1..((w + ByteBits - 1) \div ByteBits) |-> 255]

C6_AllOnes ==
    \A w \in 1..W64 :
        (OnesCase(w) /\ pc = "return")
        => /\ err = NoError
           /\ out[1] = 0..(w - 1)
           /\ Cardinality(out[1]) = w
           /\ w <= 30 => Num(out[1]) = Pow2(w) - 1

\* 64 one-bits have been decoded from 8 bytes
C6_Witness == OnesCase(W64) /\ pc = "return" /\ out[1] = BitIdx

(***************************************************************************)
(* C7: for a valid decode target, Unmarshal returns a FieldError exactly   *)
(* when some annotated field has an annotation that is no integer (the     *)
(* empty one included), or a kind that is not one of the eight fixed-size  *)
(* integer kinds, or a width outside 1..natural width; 0, -1, 9 on 8 bits  *)
(* and 65 on 64 bits are rejected, 1 and the natural width accepted;       *)
(* fields without an annotation never cause a FieldError.                  *)
(***************************************************************************)
\* the annotation of f spells a width in 1..natural width of a fixed-size kind
ValidAnnotation(f) ==
    /\ f.kind \in UintKinds \cup IntKinds
    /\ \E n \in 1..NaturalWidth[f.kind] : Denotes(f.tag, n)

ValidSchema == \A j \in 1..Len(fields) : fields[j].hasTag => ValidAnnotation(fields[j])

RejectedFields ==
    { Bits("uint8", 0), Tagged("uint8", <<"-", "1">>), Bits("uint8", 9),
      Bits("uint64", 65), Tagged("uint8", <<>>), Tagged("uint8", <<"x">>),
      Tagged("struct", <<"1">>) }
    \cup { Tagged("uint64", t) : t \in IntSpellings \cup BeyondIntSpellings }

AcceptedFields ==
    { Bits("uint8", 1), Bits("uint8", 8), Bits("uint64", 1), Bits("uint64", 64),
      Bits("int16", 16) }
    \cup { Tagged("uint64", t) : t \in ZeroPaddedSpellings }

C7_FieldErrorIff ==
    (pc = "return" /\ target = "ptr_struct")
    => /\ (err.kind = "FieldError") <=> ~ValidSchema
       /\ (\E j \in 1..Len(fields) : fields[j] \in RejectedFields)
          => err.kind = "FieldError"
       /\ (\A j \in 1..Len(fields) : fields[j] \in AcceptedFields)
          => err.kind = "nil"
       /\ (\A j \in 1..Len(fields) : ~fields[j].hasTag) => err.kind = "nil"

\* a width one above the natural width, after a valid field, was rejected
C7_Witness ==
    /\ pc = "return"
    /\ target = "ptr_struct"
    /\ Len(fields) = 2
    /\ fields[1] = Bits("uint8", 8)
    /\ fields[2] = Bits("uint8", 9)
    /\ err.kind = "FieldError"
    /\ err.field = 2

(***************************************************************************)
(* C8: Unmarshal returns a TypeError for nil, for a non-pointer, for a     *)
(* pointer to a non-struct and for a nil pointer, and none for a non-nil   *)
(* pointer to a struct.                                                    *)
(***************************************************************************)
C8_TypeError ==
    pc = "return"
    => /\ target \in {"nil", "nonptr", "structval", "ptr_nonstruct", "nilptr"}
          => err.kind = "TypeError"
       /\ target = "ptr_struct" => err.kind # "TypeError"

\* a nil pointer to a struct was rejected
C8_Witness ==
    /\ pc = "return"
    /\ target = "nilptr"
    /\ err.kind = "TypeError"
    /\ Len(fields) = 1
    /\ fields[1] = Bits("uint8", 8)

(***************************************************************************)
(* C9: when Unmarshal returns an error the output record is unmodified:    *)
(* the target and every field are validated before the first field is      *)
(* written.  A call ends with no error and every writable integer field    *)
(* assigned, or with an error and every field as before the call.          *)
(***************************************************************************)
WritableIntegerFields ==
    {j \in 1..Len(fields) : fields[j].exported /\ fields[j].kind \in UintKinds \cup IntKinds}

C9_ErrorLeavesOutput ==
    /\ (written # {} \/ out # prior \/ parsed # <<>>)
       => (target = "ptr_struct" /\ ValidSchema /\ err = NoError)
    /\ pc = "return"
       => \/ err = NoError /\ written = WritableIntegerFields
          \/ /\ err.kind \in {"TypeError", "FieldError"}
             /\ out = prior
             /\ written = {}

\* only the last field is invalid, and the valid first one is as before
C9_Witness ==
    /\ pc = "return"
    /\ err.kind = "FieldError"
    /\ err.field = 2
    /\ Len(fields) = 2
    /\ fields[1] = Bits("uint8", 8)
    /\ fields[1].exported
    /\ prior[1] = PriorPattern
    /\ out[1] = PriorPattern

(***************************************************************************)
(* C10: for a valid target and a valid schema Unmarshal returns nil for    *)
(* every buffer, the empty one and the too short ones included, under both *)
(* byte orders: the end of the buffer is no error and does not end the     *)
(* call before the last field.                                             *)
(***************************************************************************)
\* a step of the call can be taken: the guard of one of the actions holds
CanStep ==
    \/ pc = "call"
    \/ pc = "decode" /\ iField < Len(fields)
    \/ pc = "decode" /\ iField = Len(fields)

C10_DecodeCannotFail ==
    (target = "ptr_struct" /\ ValidSchema)
    => /\ pc = "return" => (err = NoError /\ iField = Len(fields))
       /\ pc # "return" => (err = NoError /\ CanStep)

\* a bit-field and a plain field were decoded from the empty buffer
C10_Witness ==
    /\ pc = "return"
    /\ err = NoError
    /\ data = <<>>
    /\ options.byteOrder = BigEndian
    /\ Len(parsed) = 2
    /\ fields[parsed[1].field].hasTag
    /\ ~fields[parsed[2].field].hasTag
    /\ {parsed[1].field, parsed[2].field} \subseteq written

(***************************************************************************)
(* C11: when only k < W bits lie between the cursor and the end of the     *)
(* buffer as a W-bit field is extracted, the extraction stops after those  *)
(* k bits and ends at the end of the buffer; its result is the value of    *)
(* the k bits alone (the bits in positions 0..k-1 under LittleEndian, the  *)
(* available chunks folded together under BigEndian), it is below 2^k, and *)
(* every later field extracts 0.                                           *)
(***************************************************************************)
\* the bits between the start of the extraction e and the end of the buffer
BitsLeft(e) == ByteBits * Len(data) - StartPos(e)

C11_Exhaustion ==
    \A k \in 1..Len(parsed) :
        LET e == parsed[k]
            left == BitsLeft(e)
        IN  left < e.bitSize
            => /\ left >= 0
               /\ e.got = left
               /\ EndPos(e) = ByteBits * Len(data)
               /\ e.val = IF options.byteOrder = LittleEndian
                          THEN RefLittle(data, StartPos(e), left)
                          ELSE RefBig(data, StartPos(e), left)
               /\ e.val \subseteq 0..(left - 1)
               /\ e.field \in written => out[e.field] = e.val
               /\ \A j \in (k + 1)..Len(parsed) :
                      /\ parsed[j].val = Zero64
                      /\ parsed[j].got = 0
                      /\ parsed[j].field \in written => out[parsed[j].field] = Zero64

\* a 37-bit field got the 13 bits that were left, under BigEndian, and a
\* later field was extracted
C11_Witness ==
    /\ options.byteOrder = BigEndian
    /\ \E k \in 1..Len(parsed) :
          /\ parsed[k].bitSize = 37
          /\ parsed[k].iBitInData = 3
          /\ parsed[k].got = 13
          /\ parsed[k].val # Zero64
          /\ Len(parsed) > k
          /\ out[parsed[k + 1].field] = Zero64

(***************************************************************************)
(* C12: a field that cannot be written (unexported or blank), tagged or    *)
(* plain, moves the cursor as a writable field of the same kind and width  *)
(* would, the alignment of a plain one included; its value is discarded,   *)
(* and all later fields decode as if it were writable.  Fields A:1, B:2,   *)
(* _:1, C:4 over 0xA5 give A = 1, B = 0b10, C = 0b1010.                    *)
(***************************************************************************)
\* the integer fields of the schema that cannot be written
Placeholders ==
    {j \in 1..Len(fields) : ~fields[j].exported /\ ~isIgnored(fields[j])}

\* the decoding of the schema with field j made writable
AsWritable(j) ==
    unmarshal(data, [fields EXCEPT ![j].exported = TRUE], options, prior)

C12_PlaceholderOccupies ==
    /\ (pc = "return" /\ err = NoError)
       => \A j \in Placeholders : \A r \in {AsWritable(j)} :
             /\ \E k \in 1..Len(parsed) : parsed[k].field = j
             /\ parsed = r.parsed
             /\ iData = r.iData
             /\ iBitInData = r.iBitInData
             /\ j \notin written
             /\ out[j] = prior[j]
             /\ \A i \in 1..Len(fields) : i # j => out[i] = r.out[i]
    /\ (/\ pc = "return"
        /\ data = <<165>>
        /\ opts = <<>>
        /\ fields = <<Bits("uint8", 1), Bits("uint8", 2), Hidden(Bits("uint8", 1)),
                      Bits("uint8", 4)>>)
       => (Num(out[1]) = 1 /\ Num(out[2]) = 2 /\ Num(out[4]) = 10)
    /\ (/\ pc = "return"
        /\ data = <<185, 153>>
        /\ opts = <<>>
        /\ Len(fields) = 4
        /\ Placeholders = {2, 3})
       => (Num(out[1]) = 25 /\ Num(out[4]) = 38)

\* a plain placeholder after a bit-field took the alignment restart and its
\* 16 bits, and the field after it was decoded from the bytes behind it
C12_Witness ==
    /\ pc = "return"
    /\ Len(fields) = 3
    /\ Placeholders = {2}
    /\ ~fields[2].hasTag
    /\ Len(parsed) = 3
    /\ parsed[1].nextIBitInData = 3
    /\ parsed[2].iData = 1
    /\ parsed[2].iBitInData = 0
    /\ parsed[2].val # Zero64
    /\ parsed[3].iData = 3
    /\ out[2] = prior[2]
    /\ out[3] # prior[3]

(***************************************************************************)
(* C13: an untagged field of a kind that is no fixed-size integer is       *)
(* skipped: the cursor is the same before and after it, it takes no        *)
(* alignment restart, and nothing is written or extracted for it; two      *)
(* bit-fields with only ignored fields between them pack contiguously, and *)
(* the other fields decode as in the schema without the ignored fields.    *)
(***************************************************************************)
\* field j is untagged and of no fixed-size integer kind
IgnoredField(j) ==
    ~fields[j].hasTag /\ fields[j].kind \notin UintKinds \cup IntKinds

\* the fields that are not ignored, in declaration order
KeptFields ==
    SelectSeq([j \in 1..Len(fields) |-> j], LAMBDA j : ~IgnoredField(j))

\* the decoding of the schema with every ignored field removed
WithoutIgnored ==
    unmarshal(data, [n \in 1..Len(KeptFields) |-> fields[KeptFields[n]]], options,
              [n \in 1..Len(KeptFields) |-> prior[KeptFields[n]]])

\* the cursor the extractions so far have left
CursorAfterParsed == CursorBefore(Len(parsed) + 1)

C13_IgnoredFieldsSkipped ==
    /\ pc \in {"decode", "return"}
       => /\ iData = CursorAfterParsed.iData
          /\ iBitInData = CursorAfterParsed.iBitInData
          /\ \A j \in 1..Len(fields) :
                IgnoredField(j)
                => /\ j \notin written
                   /\ out[j] = prior[j]
                   /\ \A k \in 1..Len(parsed) : parsed[k].field # j
          /\ \A k \in 2..Len(parsed) :
                (/\ fields[parsed[k].field].hasTag
                 /\ \A j \in (parsed[k - 1].field + 1)..(parsed[k].field - 1) :
                       IgnoredField(j))
                => StartPos(parsed[k]) = EndPos(parsed[k - 1])
    /\ (pc = "return" /\ err = NoError)
       => \A r \in {WithoutIgnored} :
             /\ Len(r.parsed) = Len(parsed)
             /\ \A n \in 1..Len(KeptFields) : out[KeptFields[n]] = r.out[n]
             /\ \A k \in 1..Len(parsed) :
                   /\ parsed[k].val = r.parsed[k].val
                   /\ StartPos(parsed[k]) = StartPos(r.parsed[k])
                   /\ EndPos(parsed[k]) = EndPos(r.parsed[k])

\* a 13-bit field behind two ignored fields continued from bit 3 of the
\* first byte, where the 3-bit field before them had ended
C13_Witness ==
    /\ pc = "return"
    /\ Len(parsed) = 2
    /\ Len(KeptFields) = 2
    /\ Len(fields) = 6
    /\ parsed[2].field = parsed[1].field + 3
    /\ parsed[2].iData = 0
    /\ parsed[2].iBitInData = 3
    /\ parsed[2].bitSize = 13
    /\ parsed[2].val # Zero64

(***************************************************************************)
(* C14: a decode mutates only the writable fields of the eight fixed-size  *)
(* integer kinds: every field that cannot be written and every ignored     *)
(* field keeps the value it had before the call, and no step changes the   *)
(* buffer.                                                                 *)
(***************************************************************************)
FrameOfOutput ==
    /\ written \subseteq WritableIntegerFields
    /\ \A j \in 1..Len(fields) :
          (~fields[j].exported \/ fields[j].kind \notin UintKinds \cup IntKinds)
          => out[j] = prior[j]
    /\ Len(out) = Len(prior)

C14_Frame == [][data' = data /\ FrameOfOutput']_vars

\* a decode has ended with a placeholder as it was between two fields that
\* were overwritten
C14_Witness ==
    /\ pc = "return"
    /\ err = NoError
    /\ Len(fields) = 3
    /\ Placeholders = {2}
    /\ written = {1, 3}
    /\ prior[2] = PriorPattern
    /\ out[2] = PriorPattern
    /\ out[1] # prior[1]
    /\ out[3] # prior[3]
    /\ data # <<>>

(***************************************************************************)
(* C15: the result of a call (the error, and the output record) is a       *)
(* function of its buffer, schema, options, target and of the record it    *)
(* decodes into, whatever calls were made before it; a call with the same  *)
(* buffer, schema and options as an earlier one returns the same error and *)
(* writes the same values to the same fields.                              *)
(***************************************************************************)
\* the earlier call c had the arguments of this one
SameArguments(c) ==
    /\ c.data = data
    /\ c.fields = fields
    /\ c.opts = opts
    /\ c.target = target

C15_Determinism ==
    pc = "return"
    => /\ \A r \in {Unmarshal(data, fields, opts, target, prior)} :
             /\ err = r.err
             /\ out = r.out
             /\ written = r.written
       /\ \A k \in 1..Len(done) :
             SameArguments(done[k])
             => /\ err = done[k].err
                /\ written = done[k].written
                /\ \A j \in written : out[j] = done[k].out[j]
                /\ prior \in {done[k].prior, done[k].out} => out = done[k].out

\* the same big-endian decode was made twice, into the same record
C15_Witness ==
    /\ pc = "return"
    /\ Len(done) = 1
    /\ SameArguments(done[1])
    /\ opts = <<BigEndian>>
    /\ iData = 2
    /\ Len(fields) = 4
    /\ written = {1, 4}
    /\ prior = done[1].out
    /\ prior # done[1].prior
    /\ out = done[1].out

(***************************************************************************)
(* C16: LittleEndian is the default byte order: a call without options     *)
(* returns the error and the output record of the call with                *)
(* WithByteOrder(LittleEndian) on the same buffer, schema and record.      *)
(***************************************************************************)
\* the options that name LittleEndian, and those that name nothing
LittleEndianOptions == <<LittleEndian>>

NoOptions == <<>>

\* this call's result is that of the same call with the options os
SameResultWith(os) ==
    \A r \in {Unmarshal(data, fields, os, target, prior)} :
        /\ err = r.err
        /\ out = r.out
        /\ written = r.written
        /\ parsed = r.parsed

C16_DefaultLittleEndian ==
    /\ (pc = "return" /\ opts = NoOptions) => SameResultWith(LittleEndianOptions)
    /\ (pc = "return" /\ opts = LittleEndianOptions) => SameResultWith(NoOptions)
    /\ (pc = "decode" /\ opts = NoOptions) => options.byteOrder = LittleEndian

\* a call without options has decoded a two-byte plain field whose bytes
\* differ, least significant byte first
C16_Witness ==
    /\ pc = "return"
    /\ opts = NoOptions
    /\ err = NoError
    /\ \E k \in 1..Len(parsed) :
          /\ ~fields[parsed[k].field].hasTag
          /\ parsed[k].bitSize = 16
          /\ parsed[k].got = 16
          /\ parsed[k].val = RefBytesLittle(data, parsed[k].iData, 2)
          /\ parsed[k].val # RefBytesBig(data, parsed[k].iData, 2)
          /\ parsed[k].field \in written
    /\ out = Unmarshal(data, fields, LittleEndianOptions, target, prior).out

(***************************************************************************)
(* C17: the byte order decides how the bytes of a plain field, and the     *)
(* chunks of a bit-field that spans bytes, are assembled (under BigEndian  *)
(* the earlier one is the more significant).  Inside a byte both orders    *)
(* consume the bits in the same direction, from the bit offset toward bit  *)
(* 7: a bit-field that lies within one byte has the same value under       *)
(* either order.  Under BigEndian, 5 bits of 0x5A are 0x1A, and 7 bits     *)
(* after 1 are 0x2D.                                                       *)
(***************************************************************************)
\* the extraction e takes all its bits from one byte
WithinOneByte(e) == e.iBitInData + e.bitSize <= ByteBits

\* the value of e were the byte consumed from bit 7 toward bit 0, the bit
\* consumed first the most significant
TopDown(e) ==
    {i \in 0..(e.bitSize - 1) :
        BitOf(data[e.iData + 1], ByteBits - e.iBitInData - e.bitSize + i) = 1}

\* the value of e with the byte consumed from the bit offset toward bit 7
BottomUp(e) ==
    {i \in 0..(e.bitSize - 1) : BitOf(data[e.iData + 1], e.iBitInData + i) = 1}

\* the assembly the byte order decides: of a plain field's bytes, and of a
\* bit-field's chunks
AssemblyFollowsOrder(e) ==
    /\ fields[e.field].hasTag
       => e.val = IF options.byteOrder = LittleEndian
                  THEN RefLittle(data, StartPos(e), e.bitSize)
                  ELSE RefBig(data, StartPos(e), e.bitSize)
    /\ (~fields[e.field].hasTag /\ e.iBitInData = 0)
       => e.val = IF options.byteOrder = LittleEndian
                  THEN RefBytesLittle(data, e.iData, e.bitSize \div ByteBits)
                  ELSE RefBytesBig(data, e.iData, e.bitSize \div ByteBits)

C17_ByteOrderEffect ==
    /\ \A k \in 1..Len(parsed) :
          LongEnough(parsed[k])
          => /\ AssemblyFollowsOrder(parsed[k])
             /\ EndPos(parsed[k]) = StartPos(parsed[k]) + parsed[k].bitSize
             /\ WithinOneByte(parsed[k])
                => /\ parsed[k].val = BottomUp(parsed[k])
                   /\ parsed[k].val =
                         parseValue(data, parsed[k].bitSize, parsed[k].iData,
                                    parsed[k].iBitInData,
                                    IF options.byteOrder = LittleEndian
                                    THEN BigEndian ELSE LittleEndian).val
    /\ (pc = "return" /\ data = <<90>> /\ opts = <<BigEndian>>)
       => /\ fields = <<Bits("uint8", 5)>> => Num(out[1]) = 26
          /\ fields = <<Hidden(Bits("uint8", 1)), Bits("uint8", 7)>>
             => Num(out[2]) = 45

\* the claim as stated: under BigEndian a bit-field consumes the bits of a
\* byte from bit 7 toward bit 0, under LittleEndian from bit 0 toward bit 7
C17_OppositeDirection ==
    \A k \in 1..Len(parsed) :
        (LongEnough(parsed[k]) /\ fields[parsed[k].field].hasTag
         /\ WithinOneByte(parsed[k]))
        => parsed[k].val = IF options.byteOrder = LittleEndian
                           THEN BottomUp(parsed[k])
                           ELSE TopDown(parsed[k])

\* under BigEndian, a 5-bit field took the low 5 bits of the first byte,
\* which differ from its high 5 bits, and a field over several bytes was
\* assembled with the earlier chunks higher
C17_Witness ==
    /\ options.byteOrder = BigEndian
    /\ data = StreamComposite
    /\ Len(parsed) = 2
    /\ parsed[1].bitSize = 5
    /\ parsed[1].iData = 0
    /\ parsed[1].iBitInData = 0
    /\ parsed[1].val = BottomUp(parsed[1])
    /\ parsed[1].val # TopDown(parsed[1])
    /\ parsed[2].bitSize = 37
    /\ LongEnough(parsed[2])
    /\ parsed[2].val = RefBig(data, 5, 37)
    /\ parsed[2].val # RefLittle(data, 5, 37)

(***************************************************************************)
(* C18: two calls at the same time on their own buffers and their own      *)
(* output records do not affect each other: under every interleaving of    *)
(* their steps each call ends with the error and the output record it has  *)
(* when it runs alone.                                                     *)
(***************************************************************************)
C18_ConcurrentCallsIndependent ==
    /\ pc = "return"
       => \A r \in {Unmarshal(data, fields, opts, target, prior)} :
             /\ err = r.err
             /\ out = r.out
             /\ written = r.written
    /\ peer.pc = "return"
       => \A r \in {Unmarshal(peer.data, peer.fields, peer.opts, peer.target,
                              peer.prior)} :
             /\ peer.err = r.err
             /\ peer.out = r.out
             /\ peer.written = r.written

\* both calls have returned, one little-endian and one big-endian, on
\* different buffers, with different cursors at their ends
C18_Witness ==
    /\ pc = "return"
    /\ peer.pc = "return"
    /\ err = NoError
    /\ peer.err = NoError
    /\ data # peer.data
    /\ options.byteOrder = LittleEndian
    /\ peer.options.byteOrder = BigEndian
    /\ iData # peer.iData
    /\ Len(parsed) = 2
    /\ Len(peer.parsed) = 3
    /\ written # {}
    /\ peer.written # {}
    /\ out # prior
    /\ peer.out # peer.prior

(***************************************************************************)
(* C19: validation fails fast in declaration order: the FieldError names   *)
(* the first invalid field, and its reason is that of the first check that *)
(* fails, in the order (1) the annotation parses as an integer, (2) the    *)
(* kind is a fixed-size integer kind, (3) 1 <= width <= natural width.  An *)
(* unparsable annotation on a non-integer field reports "must be integer", *)
(* a parsable one "must be fixed-size integer type", also when the width   *)
(* is out of every range.                                                  *)
(***************************************************************************)
\* the number of the digit sequence t is at most that of the sequence
\* lim of the same length
AtMost(t, lim) ==
    \A k \in 1..Len(t) :
        (\A j \in 1..(k - 1) : t[j] = lim[j]) => DigitVal(t[k]) <= DigitVal(lim[k])

\* the annotation is an optional sign and then one or more decimal digits,
\* and the number they spell is one of the 64-bit integers
IntegerSpelling(tag) ==
    /\ Len(tag) > 0
    /\ LET body == IF tag[1] \in {"+", "-"} THEN Tail(tag) ELSE tag
       IN  /\ Len(body) > 0
           /\ \A k \in 1..Len(body) :
                 body[k] \in {"0", "1", "2", "3", "4", "5", "6", "7", "8", "9"}
           /\ \A t \in {StripZeros(body)} :
                 \/ Len(t) < 19
                 \/ /\ Len(t) = 19
                    /\ AtMost(t, Digits(922337203) \o Digits(685477580)
                                    \o (IF tag[1] = "-" THEN <<"8">> ELSE <<"7">>))

\* the reason of the first of the three checks that fails for an invalid f
FirstFailingCheck(f) ==
    IF ~IntegerSpelling(f.tag) THEN "bit size must be integer"
    ELSE IF f.kind \notin UintKinds \cup IntKinds
         THEN "bit field must be fixed-size integer type"
    ELSE "bit size must be within range 1 to its type size"

\* the annotated fields whose annotation is invalid
InvalidFields ==
    {j \in 1..Len(fields) : fields[j].hasTag /\ ~ValidAnnotation(fields[j])}

C19_FailFastInOrder ==
    (pc = "return" /\ target = "ptr_struct")
    => /\ InvalidFields # {}
          => /\ err.kind = "FieldError"
             /\ err.field \in InvalidFields
             /\ \A j \in InvalidFields : err.field <= j
             /\ err.problem = FirstFailingCheck(fields[err.field])
       /\ \A j \in 1..Len(fields) :
             (err.kind = "FieldError" /\ err.field = j
              /\ fields[j].kind \notin UintKinds \cup IntKinds)
             => /\ fields[j].tag \in {<<"x">>, <<>>, <<"1", "x">>, <<"-">>}
                                      \cup BeyondIntSpellings \cup MixedSpellings
                   => err.problem = "bit size must be integer"
                /\ fields[j].tag \in {<<"1">>, <<"0">>, <<"6", "5">>, <<"-", "1">>}
                                      \cup IntSpellings \cup ZeroPaddedSpellings
                   => err.problem = "bit field must be fixed-size integer type"
       /\ \A j \in 1..Len(fields) :
             (err.kind = "FieldError" /\ err.field = j
              /\ fields[j].kind \in UintKinds \cup IntKinds)
             => /\ fields[j].tag \in BeyondIntSpellings \cup MixedSpellings
                   => err.problem = "bit size must be integer"
                /\ fields[j].tag \in IntSpellings
                   => err.problem = "bit size must be within range 1 to its type size"

\* of two invalid fields the first was reported: a string field with an
\* unparsable annotation, before a width above the natural width
C19_Witness ==
    /\ pc = "return"
    /\ target = "ptr_struct"
    /\ InvalidFields = {1, 2}
    /\ fields[1] = Tagged("string", <<"x">>)
    /\ fields[2] = Bits("uint8", 9)
    /\ err.kind = "FieldError"
    /\ err.field = 1
    /\ err.problem = "bit size must be integer"

(***************************************************************************)
(* C20: the decode target is checked first: the schema is validated only   *)
(* when the target is a non-nil pointer to a struct.  A nil pointer to a   *)
(* struct type with an invalid annotation yields a TypeError and never a   *)
(* FieldError, and the error of a bad target does not depend on the        *)
(* fields.                                                                 *)
(***************************************************************************)
\* the TypeError's problem for a target, by the kind of the target alone
TargetProblem ==
    [t \in Targets \ {"ptr_struct"} |->
        CASE t = "nil" -> " (nil passed)"
          [] t = "nonptr" -> " (int passed)"
          [] t = "structval" -> " (struct passed)"
          [] t = "nilptr" -> " (nil *struct passed)"
          [] t = "ptr_nonstruct" -> " (*int passed)"]

C20_TargetCheckedFirst ==
    /\ err.kind = "FieldError" => target = "ptr_struct"
    /\ (pc = "return" /\ target # "ptr_struct")
       => /\ err.kind = "TypeError"
          /\ err.field = 0
          /\ err.problem = TargetProblem[target]
          /\ out = prior
          /\ parsed = <<>>
    /\ (pc # "call" /\ target = "ptr_struct" /\ InvalidFields # {})
       => err.kind = "FieldError"

\* a nil pointer to a struct type whose second field has an invalid
\* annotation was rejected for the pointer
C20_Witness ==
    /\ pc = "return"
    /\ target = "nilptr"
    /\ Len(fields) = 2
    /\ InvalidFields = {2}
    /\ err.kind = "TypeError"
    /\ err.problem = " (nil *struct passed)"

(***************************************************************************)
(* C21: the cursor starts at (0, 0); at every field boundary its bit       *)
(* offset is in 0..7; from one field to the next neither its byte index    *)
(* nor its bit position 8 * byteIndex + bitOffset decreases; and no bit of *)
(* the buffer is consumed by two fields.                                   *)
(***************************************************************************)
\* the bit positions the extraction e consumed
Consumed(e) == StartPos(e)..(StartPos(e) + e.got - 1)

CursorWellFormed ==
    /\ iBitInData \in 0..(ByteBits - 1)
    /\ iData >= 0
    /\ pc = "call" => (iData = 0 /\ iBitInData = 0)
    /\ (pc = "decode" /\ iField = 0) => (iData = 0 /\ iBitInData = 0)
    /\ \A k \in 1..Len(parsed) :
          /\ parsed[k].iBitInData \in 0..(ByteBits - 1)
          /\ parsed[k].nextIBitInData \in 0..(ByteBits - 1)
          /\ CursorBefore(k).iData <= parsed[k].iData
          /\ parsed[k].iData <= parsed[k].nextIData
          /\ BitPos(CursorBefore(k).iData, CursorBefore(k).iBitInData)
                <= StartPos(parsed[k])
          /\ StartPos(parsed[k]) + parsed[k].got = EndPos(parsed[k])
          /\ \A j \in 1..(k - 1) : Consumed(parsed[j]) \cap Consumed(parsed[k]) = {}

\* a step moves the cursor forward or not at all
CursorAdvances ==
    /\ iData' >= iData
    /\ BitPos(iData', iBitInData') >= BitPos(iData, iBitInData)

C21_CursorInvariant == []CursorWellFormed /\ [][CursorAdvances]_vars

\* three fields were extracted one behind the other: the second began in
\* the byte the first ended in, the third after an alignment restart
C21_Witness ==
    /\ pc = "return"
    /\ Len(parsed) = 3
    /\ parsed[1].nextIBitInData = 3
    /\ parsed[2].iData = 0
    /\ parsed[2].iBitInData = 3
    /\ parsed[2].nextIData = 1
    /\ parsed[2].nextIBitInData = 4
    /\ parsed[3].iData = 2
    /\ parsed[3].iBitInData = 0
    /\ parsed[3].got = 16
    /\ iData = 4

(***************************************************************************)
(* C22: a plain integer field of N bytes (N in {1,2,4,8}) that starts,     *)
(* after alignment, at byte k leaves the cursor at (k + N, 0) when the     *)
(* buffer holds N bytes from k on, and at (len(data), 0) when it holds     *)
(* fewer.                                                                  *)
(***************************************************************************)
\* the extractions of plain integer fields
PlainExtractions == {k \in 1..Len(parsed) : ~fields[parsed[k].field].hasTag}

\* the natural width in bytes of the field of the extraction e
NaturalBytes(e) == NaturalWidth[fields[e.field].kind] \div ByteBits

C22_PlainFieldAdvance ==
    \A k \in PlainExtractions :
        LET e == parsed[k]
            n == NaturalBytes(e)
        IN  /\ n \in {1, 2, 4, 8}
            /\ e.iBitInData = 0
            /\ e.iData <= Len(data)
            /\ e.nextIBitInData = 0
            /\ e.nextIData = IF e.iData + n <= Len(data)
                             THEN e.iData + n ELSE Len(data)

\* the statement without the condition on the buffer: the cursor is at
\* (k + N, 0) after every plain field
C22_AdvanceForEveryBuffer ==
    \A k \in PlainExtractions :
        /\ parsed[k].nextIData = parsed[k].iData + NaturalBytes(parsed[k])
        /\ parsed[k].nextIBitInData = 0

\* a plain uint32 began at byte 1 after an alignment restart and the
\* buffer ended after one of its four bytes
C22_Witness ==
    /\ Len(data) = 2
    /\ \E k \in PlainExtractions :
          /\ k > 1
          /\ parsed[k - 1].nextIBitInData = 3
          /\ fields[parsed[k].field].kind = "uint32"
          /\ parsed[k].iData = 1
          /\ parsed[k].got = ByteBits
          /\ parsed[k].nextIData = 2
          /\ parsed[k].nextIBitInData = 0

(***************************************************************************)
(* C23: every call returns.  Each iteration of the extraction loop, in     *)
(* either byte order, collects at least one bit (under BigEndian the       *)
(* chunk width is at least 1), so an extraction of W bits takes at most W  *)
(* iterations; and the loop over the fields takes every field once.        *)
(***************************************************************************)
\* the counts of the extraction in progress and of those that returned
IterationBounds ==
    /\ iField <= Len(fields)
    /\ Len(parsed) <= iField
    /\ extraction.pc = "loop"
       => /\ iField < Len(fields)
          /\ extraction.iters <= extraction.got
          /\ extraction.got <= extraction.bitSize
          /\ extraction.bitSize \in 1..W64
    /\ \A k \in 1..Len(parsed) :
          /\ parsed[k].iters <= parsed[k].got
          /\ parsed[k].got <= parsed[k].bitSize
          /\ parsed[k].iters <= parsed[k].bitSize
          /\ \A j \in 1..(k - 1) : parsed[j].field < parsed[k].field

\* an iteration of the extraction loop collects a bit or more, by the
\* chunk width under BigEndian
IterationConsumes ==
    (extraction.pc = "loop" /\ extraction'.pc = "loop")
    => /\ extraction'.iters = extraction.iters + 1
       /\ extraction'.got > extraction.got
       /\ BitPos(extraction'.iData, extraction'.iBitInData)
            = BitPos(extraction.iData, extraction.iBitInData)
              + (extraction'.got - extraction.got)
       /\ options.byteOrder = BigEndian
          => /\ wantBitInThisByte(extraction.bitSize, extraction.got,
                                  extraction.iBitInData) >= 1
             /\ extraction'.got - extraction.got
                  = wantBitInThisByte(extraction.bitSize, extraction.got,
                                      extraction.iBitInData)

\* a step of the loop over the fields goes to the next field
FieldLoopAdvances == iField' \in {iField, iField + 1}

\* taken iteration by iteration, the call ends as Unmarshal does
StepsMakeTheCall ==
    pc = "return"
    => \A r \in {Unmarshal(data, fields, opts, target, prior)} :
          /\ err = r.err
          /\ out = r.out
          /\ written = r.written
          /\ parsed = r.parsed
          /\ extraction = NoExtraction

C23_Termination ==
    /\ <>(pc = "return")
    /\ []IterationBounds
    /\ []StepsMakeTheCall
    /\ [][IterationConsumes /\ FieldLoopAdvances]_vars

\* the call returned under BigEndian after an extraction of 17 bits from
\* bit 3 that the buffer ended after two iterations, and a later one that
\* took none
C23_Witness ==
    /\ pc = "return"
    /\ err = NoError
    /\ options.byteOrder = BigEndian
    /\ \E k \in 1..Len(parsed) :
          /\ parsed[k].bitSize = 17
          /\ parsed[k].iBitInData = 3
          /\ parsed[k].got = 13
          /\ parsed[k].iters = 2
          /\ Len(parsed) > k
          /\ parsed[k + 1].iters = 0

(***************************************************************************)
(* C24: the cursor never leaves the buffer: iData <= len(data), and        *)
(* iBitInData > 0 only with iData < len(data).  So the alignment restart   *)
(* goes at most to len(data), and every bit an extraction reads is a bit   *)
(* of a byte of the buffer; for every buffer, the empty one included, and  *)
(* both byte orders.                                                       *)
(***************************************************************************)
\* the cursor (d, b) is in the buffer or at its end
InBuffer(d, b) ==
    /\ 0 <= d
    /\ d <= Len(data)
    /\ b > 0 => d < Len(data)

C24_BufferBounds ==
    /\ InBuffer(iData, iBitInData)
    /\ \A k \in 1..Len(parsed) :
          /\ InBuffer(CursorBefore(k).iData, CursorBefore(k).iBitInData)
          /\ InBuffer(parsed[k].iData, parsed[k].iBitInData)
          /\ InBuffer(parsed[k].nextIData, parsed[k].nextIBitInData)
          /\ parsed[k].got > 0 => parsed[k].iData < Len(data)
          /\ \A q \in Consumed(parsed[k]) :
                /\ q \div ByteBits < Len(data)
                /\ q \div ByteBits >= parsed[k].iData
                /\ q \div ByteBits <= parsed[k].nextIData

\* the alignment restart before a plain field took the cursor from inside
\* the last byte to the end of the buffer, under BigEndian
C24_Witness ==
    /\ options.byteOrder = BigEndian
    /\ Len(data) = 1
    /\ \E k \in PlainExtractions :
          /\ k > 1
          /\ parsed[k - 1].nextIData = 0
          /\ parsed[k - 1].nextIBitInData > 0
          /\ parsed[k].iData = 1
          /\ parsed[k].got = 0
          /\ iData = 1
          /\ iBitInData = 0

(***************************************************************************)
(* C25: a bit-field of W bits at bit offset o with o + W <= 8 decodes to   *)
(* (byte >> o) mod 2^W under LittleEndian and under BigEndian alike; so a  *)
(* schema whose bit-fields all lie within one byte and whose plain fields  *)
(* are all one byte wide decodes to the same output under both byte        *)
(* orders.  Over 0x5A under BigEndian, _:3, A:2, _:3 gives A = 3 and _:1,  *)
(* A:7 gives A = 0x2D.                                                     *)
(***************************************************************************)
\* the byte order that the call does not use
OtherOrder == IF options.byteOrder = LittleEndian THEN BigEndian ELSE LittleEndian

\* the extraction e is of a bit-field that lies within a byte, or of a
\* plain field of one byte
InOneByte(e) ==
    IF fields[e.field].hasTag
    THEN e.iBitInData + e.bitSize <= ByteBits
    ELSE e.bitSize = ByteBits

\* (byte >> o) mod 2^W of the byte the extraction e starts in
ShiftedAndCut(e) ==
    U64OfByte((data[e.iData + 1] \div Pow2(e.iBitInData)) % Pow2(e.bitSize))

C25_SameWithinByte ==
    /\ pc = "return"
       => \A k \in 1..Len(parsed) :
             (InOneByte(parsed[k]) /\ parsed[k].iData < Len(data))
             => /\ parsed[k].val = ShiftedAndCut(parsed[k])
                /\ parseValue(data, parsed[k].bitSize, parsed[k].iData,
                              parsed[k].iBitInData, OtherOrder).val
                     = ShiftedAndCut(parsed[k])
    /\ (pc = "return" /\ err = NoError /\ \A k \in 1..Len(parsed) : InOneByte(parsed[k]))
       => \A r \in {Unmarshal(data, fields, <<OtherOrder>>, target, prior)} :
             /\ r.err = NoError
             /\ r.out = out
             /\ r.written = written
             /\ r.parsed = parsed
    /\ (pc = "return" /\ data = <<90>> /\ opts = <<BigEndian>>)
       => /\ fields = <<Hidden(Bits("uint8", 3)), Bits("uint8", 2),
                        Hidden(Bits("uint8", 3))>>
             => out[2] = U64OfByte(3)
          /\ fields = <<Hidden(Bits("uint8", 1)), Bits("uint8", 7)>>
             => out[2] = U64OfByte(45)

\* under BigEndian two bits were taken from the middle of 0x5A, between
\* two placeholders of three bits, and the call returned
C25_Witness ==
    /\ pc = "return"
    /\ options.byteOrder = BigEndian
    /\ data = <<90>>
    /\ Len(parsed) = 3
    /\ parsed[2].iBitInData = 3
    /\ parsed[2].bitSize = 2
    /\ parsed[3].nextIData = 1
    /\ out[2] = U64OfByte(3)

(***************************************************************************)
(* C26: the value an extraction of width W returns is below 2^W, under     *)
(* both byte orders, for every buffer and every start position.  So the    *)
(* msb that signed computes as val >> (W - 1), without a mask, is 0 or 1,  *)
(* and the store into an unsigned field, whose width is at least W,        *)
(* keeps every bit of the value.                                           *)
(***************************************************************************)
\* val >> (bitSize - 1), as signed computes it for the extraction e
MsbOf(e) == Shr64(e.val, e.bitSize - 1)

C26_ValueBelowTwoToW ==
    \A k \in 1..Len(parsed) :
        LET e == parsed[k]
            f == fields[e.field]
        IN  /\ e.val \subseteq 0..(e.bitSize - 1)
            /\ MsbOf(e) \in {Zero64, One64}
            /\ MsbOf(e) = One64 <=> (e.bitSize - 1) \in e.val
            /\ e.bitSize <= TypeBits(f.kind)
            /\ CanUint(f.kind)
               => /\ SetUint(e.val, TypeBits(f.kind)) = e.val
                  /\ e.field \in written => out[e.field] = e.val

\* under BigEndian a signed field of 9 bits that began at bit 5 has its
\* top bit set, and an unsigned field before it was stored whole
C26_Witness ==
    /\ options.byteOrder = BigEndian
    /\ Len(parsed) = 3
    /\ parsed[3].bitSize = 9
    /\ parsed[3].iBitInData = 5
    /\ CanInt(fields[parsed[3].field].kind)
    /\ MsbOf(parsed[3]) = One64
    /\ (W64 - 1) \in out[parsed[3].field]
    /\ CanUint(fields[parsed[1].field].kind)
    /\ parsed[1].field \in written
    /\ out[parsed[1].field] = parsed[1].val
    /\ parsed[1].val # Zero64

(***************************************************************************)
(* C27: a call that returns nil has assigned every writable integer        *)
(* field, those included for which the buffer had no bit left: such a      *)
(* field is set to 0 over the value it held.  So after the call the        *)
(* writable integer fields are a function of the buffer, the schema and    *)
(* the options, whatever the output record held before.                    *)
(***************************************************************************)
\* the extractions that began at or after the end of the buffer
BeganAtEnd == {k \in 1..Len(parsed) : StartPos(parsed[k]) >= ByteBits * Len(data)}

\* an output record that differs from the one given in every bit
OtherPrior == [j \in 1..Len(fields) |-> BitIdx \ prior[j]]

C27_AllWritableAssigned ==
    (pc = "return" /\ err = NoError)
    => /\ written = WritableIntegerFields
       /\ \A j \in WritableIntegerFields : \E k \in 1..Len(parsed) : parsed[k].field = j
       /\ \A k \in BeganAtEnd :
             /\ parsed[k].got = 0
             /\ parsed[k].field \in WritableIntegerFields
                => out[parsed[k].field] = Zero64
       /\ \A r \in {Unmarshal(data, fields, opts, target, OtherPrior)} :
             /\ r.err = NoError
             /\ \A j \in WritableIntegerFields : r.out[j] = out[j]
             /\ \A j \in 1..Len(fields) :
                   j \notin WritableIntegerFields => r.out[j] = OtherPrior[j]

\* a call returned nil on the empty buffer, with a bit-field and a plain
\* field set to 0 that held another value before
C27_Witness ==
    /\ pc = "return"
    /\ err = NoError
    /\ data = <<>>
    /\ Len(fields) = 2
    /\ fields[1].hasTag
    /\ ~fields[2].hasTag
    /\ written = {1, 2}
    /\ BeganAtEnd = {1, 2}
    /\ prior[1] # Zero64
    /\ prior[2] # Zero64
    /\ out = <<Zero64, Zero64>>

(***************************************************************************)
(* C28: the sign is taken at the field's full width W, not at the number   *)
(* of bits collected: a signed field that the buffer ended in (fewer than  *)
(* W bits collected) is stored non-negative, also when every bit           *)
(* collected is 1.  Under BigEndian the bits collected are right-aligned:  *)
(* a field of whole bytes that began on a byte and was cut short is the    *)
(* big-endian integer of the bytes that were there; a 32-bit field over    *)
(* 0x01 0x23 is 0x0123.                                                    *)
(***************************************************************************)
\* the extractions that the buffer ended in
CutShort == {k \in 1..Len(parsed) : parsed[k].got < parsed[k].bitSize}

\* the bytes of the buffer from the start of the extraction e on
BytesLeft(e) == Len(data) - e.iData

C28_SignAtFullWidth ==
    /\ \A k \in CutShort :
          LET e == parsed[k]
          IN  /\ (CanInt(fields[e.field].kind) /\ e.field \in written)
                 => /\ out[e.field] = e.val
                    /\ (W64 - 1) \notin out[e.field]
                    /\ out[e.field] \subseteq 0..(e.got - 1)
              /\ (options.byteOrder = BigEndian /\ e.iBitInData = 0
                     /\ e.bitSize % ByteBits = 0)
                 => /\ e.got = ByteBits * BytesLeft(e)
                    /\ e.val = RefBytesBig(data, e.iData, BytesLeft(e))
    /\ (pc = "return" /\ data = <<1, 35>> /\ Len(fields) = 1
          /\ fieldBitSize(fields[1]) = 32)
       => Num(out[1]) = IF options.byteOrder = BigEndian THEN 291 ELSE 8961

\* under BigEndian a signed field of 32 bits over 0xFF 0xFF collected 16
\* one-bits and holds 65535
C28_Witness ==
    /\ pc = "return"
    /\ options.byteOrder = BigEndian
    /\ data = <<255, 255>>
    /\ fields = <<Bits("int32", 32)>>
    /\ CutShort = {1}
    /\ parsed[1].got = 16
    /\ parsed[1].val = 0..15
    /\ out[1] = 0..15

(***************************************************************************)
(* C29: a bit-field tagged with the full width of its type and the same    *)
(* field without a tag differ by the alignment restart alone.  Reached     *)
(* with bit offset 0, both extract the same value, store the same and      *)
(* leave the same cursor, for every buffer and both byte orders; reached   *)
(* with another bit offset, the tagged one starts at that bit and the      *)
(* untagged one at bit 0 of the next byte.  A uint32 tagged 32 over 0x5A   *)
(* 0xA5 0x5A 0xA5 under BigEndian is 0x5AA55AA5.                           *)
(***************************************************************************)
\* the field f is an integer field of full width, tagged so or untagged
FullWidth(f) ==
    /\ isFixedInteger(f.kind)
    /\ f.hasTag => Atoi(f.tag).val = TypeBits(f.kind)

\* the field f with its tag taken away, or tagged with its full width
Retagged(f) ==
    IF f.hasTag
    THEN [f EXCEPT !.hasTag = FALSE, !.tag = <<>>]
    ELSE [f EXCEPT !.hasTag = TRUE, !.tag = Digits(TypeBits(f.kind))]

\* the loop body of unmarshal at the k-th extraction, were its field
\* tagged the other way
RetaggedStep(k) ==
    unmarshalField(data,
                   [fields EXCEPT ![parsed[k].field] = Retagged(fields[parsed[k].field])],
                   options.byteOrder,
                   [iField |-> parsed[k].field - 1,
                    iData |-> CursorBefore(k).iData,
                    iBitInData |-> CursorBefore(k).iBitInData,
                    out |-> prior, written |-> {}, parsed |-> <<>>])

C29_FullWidthTagOrNone ==
    pc = "return"
    => /\ \A k \in 1..Len(parsed) :
             FullWidth(fields[parsed[k].field])
             => \A r \in {RetaggedStep(k)} :
                  LET e == parsed[k]
                      e2 == r.parsed[1]
                      tagged == IF fields[e.field].hasTag THEN e ELSE e2
                      untagged == IF fields[e.field].hasTag THEN e2 ELSE e
                  IN  /\ e2.bitSize = e.bitSize
                      /\ CursorBefore(k).iBitInData = 0
                         => /\ e2.val = e.val
                            /\ e2.got = e.got
                            /\ e2.iData = e.iData
                            /\ e2.iBitInData = e.iBitInData
                            /\ r.iData = e.nextIData
                            /\ r.iBitInData = e.nextIBitInData
                            /\ r.out[e.field] = out[e.field]
                      /\ CursorBefore(k).iBitInData # 0
                         => /\ tagged.iData = CursorBefore(k).iData
                            /\ tagged.iBitInData = CursorBefore(k).iBitInData
                            /\ untagged.iData = CursorBefore(k).iData + 1
                            /\ untagged.iBitInData = 0
       /\ (data = <<90, 165, 90, 165>> /\ opts = <<BigEndian>>
             /\ fields = <<Bits("uint32", 32)>>)
          => /\ Num(out[1]) = 1520786085
             /\ out[1] = RefBytesBig(data, 0, 4)

\* the call on the composite test stream returned: its plain uint32 was
\* reached at bit 0 and tagged 32 it would extract the same; its plain
\* uint16 was reached at bit 3 and began at the next byte, and tagged 16
\* it would begin at bit 3
C29_Witness ==
    /\ pc = "return"
    /\ data = StreamComposite
    /\ Len(parsed) = 11
    /\ fields[6] = Plain("uint32")
    /\ CursorBefore(6).iBitInData = 0
    /\ RetaggedStep(6).parsed[1].val = parsed[6].val
    /\ parsed[6].val # Zero64
    /\ fields[11] = Plain("uint16")
    /\ CursorBefore(11).iBitInData = 3
    /\ parsed[11].iBitInData = 0
    /\ parsed[11].iData = CursorBefore(11).iData + 1
    /\ RetaggedStep(11).parsed[1].iBitInData = 3
    /\ RetaggedStep(11).parsed[1].iData = CursorBefore(11).iData

=============================================================================
